---- MODULE Spec2Model ----
(***************************************************************************)
(* Model of scripts/run_article_benchmarks_docker.py: the benchmark        *)
(* invocation and output parser (run_benchmark), the container lifecycle   *)
(* (start_database / stop_database), the readiness probe (check_ready),    *)
(* the test-suite orchestrator (run_test_suite) and a whole run (main,     *)
(* run_full_comparison_suite) with the result storage of                   *)
(* scripts/results_storage.py.                                             *)
(*                                                                         *)
(* Conventions.  A Python str that the code searches or splits is a        *)
(* sequence of one-character strings.  Python None in an integer position  *)
(* is the value None (-1; every parsed number is >= 0).  A Python dict is  *)
(* a record; a key that the dict does not hold is absent from the record.  *)
(* A float with two decimals (throughput) is the integer number of         *)
(* hundredths.  Load-generator stdout is a sequence of report lines; a     *)
(* line is a record of the fields its text carries, and a regular          *)
(* expression of the code is the predicate on these fields that the        *)
(* expression's literal text and groups impose.                            *)
(***************************************************************************)
EXTENDS Integers, Sequences, FiniteSets, TLC

VARIABLES
    call,       \* arguments of one run_benchmark call
    proc_stdout,  \* what the load generator of that call has printed so far
    proc_result,  \* what became of the load-generator process
    response,   \* what the call returned
    bpc,        \* "running" while subprocess.run waits, then "returned"
    launches    \* how many times that call has launched the load generator

VARIABLES
    running,    \* names of the containers the Docker daemon is running
    lpc,        \* container lifecycle: "idle", "started" or "stopped"
    l_db,       \* the target start_database was last called for
    l_outcome   \* what that call came to (see StartOutcomes); in a suite,
                \* "none" once the suite has made another call

\* run_test_suite: its arguments, the module-level target list, its locals,
\* and the processes and records it leaves behind
VARIABLES
    DATABASES,          \* the target list (module-level, filtered by main)
    test_configs,       \* the test cases of the suite
    restart_per_test,   \* operating mode
    enable_queries,
    enable_monitoring,
    track_activity,
    pc,                 \* position in run_test_suite
    test_idx,           \* index of the current test case (from 1)
    db_idx,             \* index of the current target (from 1)
    results,            \* the dict the suite returns: key -> list of results
    current_container,  \* persistent mode: container believed to be running
    current_db_name,
    monitor_proc,       \* the monitor process of the current test, or None
    result,             \* what run_benchmark returned for the current test
    activity_log,       \* list of {database, event}
    monitors,           \* number of monitor processes alive
    docker_log          \* history: the calls the suite has made (see LogEntry)

\* check_ready: one call
VARIABLES
    cpc,        \* "probing" until check_ready has returned, then "returned"
    c_db,       \* the target the call is for
    c_obs,      \* what the docker ps listing and the probes come to
    c_ready     \* what the call returned

\* One run of main or of run_full_comparison_suite.  DATABASES (above) is the
\* target list the run works on.
VARIABLES
    mode,               \* "main" or "full" (--full-comparison)
    rpc,                \* position in the run; "raised": an exception has left it
    randomize_order,    \* args.randomize_order
    run_index_first,    \* what random.choice returned
    results_storage,    \* "none" (None), "open" or "closed"
    opens,              \* how many connections the run has opened
    closes,             \* how many times it has closed one
    r_test_run_id,      \* test_run_id of the run, NoneStr for None
    clock,              \* the clock datetime.now() reads, in ticks
    collected,          \* the results the suites have returned, in order
    inserted,           \* history: what has been handed to insert_one
    pass_log,           \* history: the suites run, with the flags they saw
    original_databases, \* the deep copy taken before the flags are stripped
    backup              \* the local JSON file

\* store_results_to_mongodb: one call
VARIABLES
    spc,            \* "idle" before the call, "loop" inside it, then "returned"
    s_storage,      \* results_storage: "none" (None), "unconnected" (its
                    \* collection is None) or "connected"
    results_dict,   \* the results handed in: the lists of all keys, in the
                    \* order the loops go through them
    s_pos,          \* how many of them the loops have gone through
    s_calls,        \* history: the calls made on the collection
    stored_count

\* start_database: one call, its readiness loop and what follows it
VARIABLES
    wpc,            \* position in start_database, then "returned"; "suite": the
                    \* caller has acted on what was returned
    w_db,           \* the target
    w_probes,       \* calls of check_ready made so far
    w_ready,        \* what the last of them returned
    w_attempts,     \* attempts of the operational check made so far
    w_verified,     \* what the last of them came to
    w_ret,          \* what start_database returned
    w_then          \* what run_test_suite does next

\* get_database_version: one call
VARIABLES
    vpc,            \* "idle" before the call, then "returned"
    v_db_type,
    connection_info,\* which of 'user' and 'container' the caller has given
    v_env,          \* what each lookup comes to when it is made
    v_ret           \* the value returned and the lookups made, in order

benchVars == <<call, proc_stdout, proc_result, response, bpc, launches>>
lifeVars == <<lpc, l_db, l_outcome>>
readyVars == <<cpc, c_db, c_obs, c_ready>>
runVars == <<mode, rpc, randomize_order, run_index_first, results_storage, opens,
             closes, r_test_run_id, clock, collected, inserted, pass_log,
             original_databases, backup>>
storeVars == <<spc, s_storage, results_dict, s_pos, s_calls, stored_count>>
waitVars == <<wpc, w_db, w_probes, w_ready, w_attempts, w_verified, w_ret, w_then>>
versionVars == <<vpc, v_db_type, connection_info, v_env, v_ret>>
callVars == <<storeVars, waitVars, versionVars>>
suiteLocals == <<test_configs, restart_per_test, enable_queries,
                 enable_monitoring, track_activity, pc, test_idx, db_idx, results,
                 current_container, current_db_name, monitor_proc, result,
                 activity_log, monitors, docker_log>>
suiteVars == <<DATABASES, test_configs, restart_per_test, enable_queries,
               enable_monitoring, track_activity, pc, test_idx, db_idx, results,
               current_container, current_db_name, monitor_proc, result,
               activity_log, monitors, docker_log>>
vars == <<call, proc_stdout, proc_result, response, bpc, launches, running, lpc, l_db,
          l_outcome, DATABASES, test_configs, restart_per_test, enable_queries,
          enable_monitoring, track_activity, pc, test_idx, db_idx, results,
          current_container, current_db_name, monitor_proc, result,
          activity_log, monitors, docker_log, cpc, c_db, c_obs, c_ready,
          mode, rpc, randomize_order, run_index_first, results_storage, opens,
          closes, r_test_run_id, clock, collected, inserted, pass_log,
          original_databases, backup, spc, s_storage, results_dict, s_pos, s_calls,
          stored_count, wpc, w_db, w_probes, w_ready, w_attempts, w_verified, w_ret,
          w_then, vpc, v_db_type, connection_info, v_env, v_ret>>

----------------------------------------------------------------------------
(* Module-level values of the script.                                      *)

None == -1
NoneStr == "None"

NUM_DOCS == 10000
NUM_RUNS == 3
BATCH_SIZE == 500
QUERY_LINKS == 10

----------------------------------------------------------------------------
(* Strings as character sequences.                                         *)

Sp == " "

\* needle in hay  (Python's substring test on str)
Contains(hay, needle) ==
    \E k \in 0..(Len(hay) - Len(needle)) :
        SubSeq(hay, k + 1, k + Len(needle)) = needle

\* str.split(): the maximal runs of non-blank characters, in order
RECURSIVE SplitFrom(_, _, _)
SplitFrom(s, i, cur) ==
    IF i > Len(s)
    THEN IF cur = <<>> THEN <<>> ELSE <<cur>>
    ELSE IF s[i] = Sp
         THEN IF cur = <<>> THEN SplitFrom(s, i + 1, <<>>)
                            ELSE <<cur>> \o SplitFrom(s, i + 1, <<>>)
         ELSE SplitFrom(s, i + 1, Append(cur, s[i]))

Split(s) == SplitFrom(s, 1, <<>>)

\* " ".join(tokens)
RECURSIVE Join(_)
Join(tokens) ==
    IF tokens = <<>> THEN <<>>
    ELSE IF Len(tokens) = 1 THEN tokens[1]
    ELSE tokens[1] \o <<Sp>> \o Join(Tail(tokens))

Range(f) == {f[i] : i \in DOMAIN f}

\* The switches of the load generator that occur in the target table, and two
\* switches of which "-i" resp. "-mv" is only a part.
F_i    == <<"-", "i">>
F_mv   == <<"-", "m", "v">>
F_rd   == <<"-", "r", "d">>
F_p    == <<"-", "p">>
F_j    == <<"-", "j">>
F_ddb  == <<"-", "d", "d", "b">>
F_id   == <<"-", "i", "d">>
F_mvc  == <<"-", "m", "v", "c">>

\* The flag strings of the target table (DATABASES / CLOUD_DATABASES).
FLAGS_MONGODB    == Join(<<F_i, F_rd>>)
FLAGS_DOCUMENTDB == Join(<<F_ddb, F_i, F_rd>>)
FLAGS_POSTGRESQL == Join(<<F_p, F_j, F_i, F_rd>>)
FLAGS_YSQL       == Join(<<F_p, F_i, F_rd>>)

----------------------------------------------------------------------------
(* run_benchmark: the report lines of the load generator and the regular   *)
(* expressions that read them.                                             *)

\* "<phrase> to insert <docs> documents with <size>B payload in <attrs>
\*  attribute(s) into <word>: <ms>ms"
PayloadLine(phrase, docs, size, attrs, ms) ==
    [kind |-> "insert", form |-> "payload", phrase |-> phrase,
     docs |-> docs, size |-> size, attrs |-> attrs, ms |-> ms]

\* "<phrase> to insert <docs> documents with realistic nested data (~<size>B)
\*  into <word>: <ms>ms"; the text carries no attribute count
RealisticLine(phrase, docs, size, ms) ==
    [kind |-> "insert", form |-> "realistic", phrase |-> phrase,
     docs |-> docs, size |-> size, attrs |-> None, ms |-> ms]

\* "Best query time for <ids> ID's with <links> element link arrays...: <ms>ms"
\* (phrase "best") and "Total time taken to query related documents for <ids>
\* ID's with <links> element link arrays...: <ms>ms" (phrase "total")
QueryLine(phrase, ids, links, ms) ==
    [kind |-> "query", phrase |-> phrase, ids |-> ids, links |-> links, ms |-> ms]

\* "LATENCY_STATS|<op>|<json>"; json is "stats" for a well-formed statistics
\* object and "invalid" for text json.loads rejects
LatencyLine(op, json) ==
    [kind |-> "latency", op |-> op, json |-> json]

InsertPhrases == {"Best time", "Time taken"}

\* rf"(?:Best time|Time taken) to insert {num_docs} documents with {size}B
\*    payload in {attrs} attributes? into \w+: (\d+)ms"
pattern(line, num_docs, size, attrs) ==
    /\ line.kind = "insert"
    /\ line.form = "payload"
    /\ line.phrase \in InsertPhrases
    /\ line.docs = num_docs
    /\ line.size = size
    /\ line.attrs = attrs

\* the same with "in \d+ attributes?"
alt_pattern(line, num_docs, size) ==
    /\ line.kind = "insert"
    /\ line.form = "payload"
    /\ line.phrase \in InsertPhrases
    /\ line.docs = num_docs
    /\ line.size = size

\* rf"(?:Best time|Time taken) to insert {num_docs} documents with realistic
\*    nested data \(~{size}B\) into \w+: (\d+)ms"
realistic_pattern(line, num_docs, size) ==
    /\ line.kind = "insert"
    /\ line.form = "realistic"
    /\ line.phrase \in InsertPhrases
    /\ line.docs = num_docs
    /\ line.size = size

\* rf"Best query time for (\d+) ID's with {query_links} element link arrays.*?: (\d+)ms"
query_pattern(line, query_links) ==
    /\ line.kind = "query"
    /\ line.phrase = "best"
    /\ line.links = query_links

\* rf"Total time taken to query related documents for (\d+) ID's with
\*    {query_links} element link arrays.*?: (\d+)ms"
query_pattern_single(line, query_links) ==
    /\ line.kind = "query"
    /\ line.phrase = "total"
    /\ line.links = query_links

\* re.search over stdout, given the positions that match the pattern: the
\* position of the leftmost match, 0 for no match
Search(hits) ==
    IF hits = {} THEN 0 ELSE CHOOSE i \in hits : \A j \in hits : i <= j

\* round(a / b, 2 decimals) for the quotient a/b given in hundredths: the
\* nearest integer to a/b, an exact half going to the even neighbour
RoundHalfEven(a, b) ==
    LET q == a \div b
        r == a % b
    IN  IF 2 * r > b \/ (2 * r = b /\ q % 2 = 1) THEN q + 1 ELSE q

\* a rate per millisecond: the conversion of time_ms to seconds left out
Throughput_per_ms(count, time_ms) == RoundHalfEven(count * 100, time_ms)

\* round(count / (time_ms / 1000), 2), in hundredths; time_ms > 0
Throughput(count, time_ms) == RoundHalfEven(count * 100000, time_ms)

\* the patterns tried in the reverse order
ParseInsert_reversed(stdout, num_docs, size, attrs) ==
    LET m1 == Search({i \in DOMAIN stdout : pattern(stdout[i], num_docs, size, attrs)})
        m2 == Search({i \in DOMAIN stdout : alt_pattern(stdout[i], num_docs, size)})
        m3 == Search({i \in DOMAIN stdout : realistic_pattern(stdout[i], num_docs, size)})
    IN  IF m3 # 0 THEN [matched |-> TRUE, time_ms |-> stdout[m3].ms]
        ELSE IF m2 # 0 THEN [matched |-> TRUE, time_ms |-> stdout[m2].ms]
        ELSE IF m1 # 0 THEN [matched |-> TRUE, time_ms |-> stdout[m1].ms]
        ELSE [matched |-> FALSE, time_ms |-> None]

\* The three insert patterns in the order the code tries them.  matched is
\* FALSE when none matches; otherwise time_ms is group 1 of the first pattern
\* that matches, at its leftmost match.
ParseInsert(stdout, num_docs, size, attrs) ==
    LET m1 == Search({i \in DOMAIN stdout : pattern(stdout[i], num_docs, size, attrs)})
        m2 == Search({i \in DOMAIN stdout : alt_pattern(stdout[i], num_docs, size)})
        m3 == Search({i \in DOMAIN stdout : realistic_pattern(stdout[i], num_docs, size)})
    IN  IF m1 # 0 THEN [matched |-> TRUE, time_ms |-> stdout[m1].ms]
        ELSE IF m2 # 0 THEN [matched |-> TRUE, time_ms |-> stdout[m2].ms]
        ELSE IF m3 # 0 THEN [matched |-> TRUE, time_ms |-> stdout[m3].ms]
        ELSE [matched |-> FALSE, time_ms |-> None]

\* The two query patterns: the multi-run phrasing, then the single-run one.
ParseQuery(stdout, query_links) ==
    LET q1 == Search({i \in DOMAIN stdout : query_pattern(stdout[i], query_links)})
        q2 == Search({i \in DOMAIN stdout : query_pattern_single(stdout[i], query_links)})
    IN  IF q1 # 0
        THEN [matched |-> TRUE, ids |-> stdout[q1].ids, ms |-> stdout[q1].ms]
        ELSE IF q2 # 0
        THEN [matched |-> TRUE, ids |-> stdout[q2].ids, ms |-> stdout[q2].ms]
        ELSE [matched |-> FALSE, ids |-> None, ms |-> None]

\* latency_metrics: one summary per operation type whose JSON parses (a line
\* json.loads rejects is skipped with a warning)
LatencyOps(stdout) ==
    {stdout[i].op : i \in {j \in 1..Len(stdout) :
                              stdout[j].kind = "latency" /\ stdout[j].json = "stats"}}

\* '-i' in db_flags or '-mv' in db_flags
Indexed(db_flags) == Contains(db_flags, F_i) \/ Contains(db_flags, F_mv)

Failure(error) == [success |-> FALSE, error |-> error]

\* response.get(key) for an integer-valued key
Get(r, key) == IF key \in DOMAIN r THEN r[key] ELSE None

\* The characters of the decimal digits.
Digits == <<"0", "1", "2", "3", "4", "5", "6", "7", "8", "9">>

\* datetime.isoformat(): the instant (a count of clock ticks) written out as
\* a str, most significant digit first
RECURSIVE IsoFormat(_)
IsoFormat(t) ==
    IF t < 10 THEN <<Digits[t + 1]>>
    ELSE Append(IsoFormat(t \div 10), Digits[(t % 10) + 1])

\* The result document run_benchmark attaches to a successful response.  now
\* is the reading of the clock (datetime.now()) when the document is built.
ResultDoc(resp, db_flags, size, attrs, num_docs, query_links, db_type, test_run_id, now) ==
    [timestamp |-> [str |-> IsoFormat(now)],
     test_run_id |-> IF test_run_id = NoneStr THEN "unknown" ELSE test_run_id,
     database |-> [type |-> db_type],
     test_config |->
        [num_docs |-> num_docs,
         num_runs |-> NUM_RUNS,
         batch_size |-> BATCH_SIZE,
         test_type |-> IF attrs = 1 THEN "single_attr" ELSE "multi_attr",
         payload_size |-> size,
         num_attributes |-> attrs,
         indexed |-> Indexed(db_flags),
         query_test |-> (query_links # None),
         query_links |-> IF query_links # None /\ query_links # 0
                         THEN query_links ELSE None],
     results |->
        [insert_time_ms |-> Get(resp, "time_ms"),
         insert_throughput |-> Get(resp, "throughput"),
         query_time_ms |-> Get(resp, "query_time_ms"),
         query_throughput |-> Get(resp, "query_throughput"),
         success |-> resp.success],
     resource_metrics |-> 0,
     latency_metrics |-> IF "latency_metrics" \in DOMAIN resp
                         THEN resp.latency_metrics ELSE {}]

\* The part of run_benchmark after the insert report has matched with
\* time_ms > 0: query parsing, latency parsing, the result document.
\* A query report of 0 ms makes query_time_ms / 1000 zero and the division
\* raises ZeroDivisionError, which the outer handler turns into a failure.
AfterInsert(base, stdout, db_flags, size, attrs, num_docs, query_links, db_type, test_run_id, collect_latency, now) ==
    LET q == ParseQuery(stdout, query_links)
        withQuery ==
            IF query_links = None THEN base
            ELSE IF q.matched
                 THEN [query_time_ms |-> q.ms,
                       query_throughput |-> Throughput(q.ids, q.ms),
                       queries_executed |-> q.ids,
                       query_links |-> query_links] @@ base
                 ELSE [query_time_ms |-> None,
                       query_error |-> "Could not parse query results"] @@ base
        withLatency ==
            IF collect_latency /\ LatencyOps(stdout) # {}
            THEN [latency_metrics |-> LatencyOps(stdout)] @@ withQuery
            ELSE withQuery
    IN  IF query_links # None /\ q.matched /\ q.ms = 0
        THEN Failure("float division by zero")
        ELSE [mongodb_document |->
                 ResultDoc(withLatency, db_flags, size, attrs, num_docs,
                           query_links, db_type, test_run_id, now)] @@ withLatency

\* a launch that timed out is made a second time
Launches_retry(proc) ==
    IF proc.kind = "jar_missing" THEN 0 ELSE IF proc.kind = "timeout" THEN 2 ELSE 1

\* How many times run_benchmark calls subprocess.run: not at all when the JAR
\* file is missing, else once; no handler calls it again.
Launches(proc) == IF proc.kind = "jar_missing" THEN 0 ELSE 1

\* run_benchmark.  proc is what became of the load-generator process:
\*   [kind |-> "jar_missing"]                  the JAR file does not exist
\*   [kind |-> "timeout"]                      subprocess.TimeoutExpired
\*   [kind |-> "exception", msg |-> m]         any other exception of the launch
\*   [kind |-> "completed", stdout, returncode, stderr]
RunBenchmark(db_flags, size, attrs, num_docs, query_links, db_type, test_run_id, collect_latency, proc, now) ==
    IF proc.kind = "jar_missing"
    THEN Failure("JAR file not found: target/insertTest-1.0-jar-with-dependencies.jar")
    ELSE IF proc.kind = "timeout" THEN Failure("Timeout")
    ELSE IF proc.kind = "exception" THEN Failure(proc.msg)
    ELSE
      LET ins == ParseInsert(proc.stdout, num_docs, size, attrs)
      IN  IF ~ins.matched THEN Failure("Could not parse output")
          ELSE IF ins.time_ms = 0 THEN Failure("float division by zero")
          ELSE AfterInsert(
                 [success |-> TRUE, size |-> size, attrs |-> attrs,
                  num_docs |-> num_docs, time_ms |-> ins.time_ms,
                  throughput |-> Throughput(num_docs, ins.time_ms)],
                 proc.stdout, db_flags, size, attrs, num_docs, query_links,
                 db_type, test_run_id, collect_latency, now)

----------------------------------------------------------------------------
(* The target table and the container lifecycle.                           *)

\* DATABASES as the script defines it: container-backed targets (no 'cloud' key)
DEFAULT_DATABASES == <<
    [name |-> "MongoDB (BSON)", key |-> "mongodb", flags |-> FLAGS_MONGODB,
     container |-> "mongodb-benchmark", db_type |-> "mongodb",
     port |-> 27017, image |-> "mongo"],
    [name |-> "DocumentDB", key |-> "documentdb", flags |-> FLAGS_DOCUMENTDB,
     container |-> "documentdb-benchmark", db_type |-> "documentdb",
     port |-> 10260, image |-> "documentdb-local"],
    [name |-> "PostgreSQL (JSONB)", key |-> "postgresql", flags |-> FLAGS_POSTGRESQL,
     container |-> "postgres-benchmark", db_type |-> "postgresql",
     port |-> 5432, image |-> "postgres:latest"],
    [name |-> "YugabyteDB (YSQL)", key |-> "yugabytedb", flags |-> FLAGS_YSQL,
     container |-> "yugabyte-benchmark", db_type |-> "yugabytedb",
     port |-> 5433, image |-> "yugabytedb/yugabyte:latest"],
    [name |-> "CockroachDB (SQL)", key |-> "cockroachdb", flags |-> FLAGS_YSQL,
     container |-> "cockroach-benchmark", db_type |-> "cockroachdb",
     port |-> 26257, image |-> "cockroachdb/cockroach:latest"] >>

\* CLOUD_DATABASES as get_enabled_cloud_databases returns them: no container,
\* port or image, cloud = True and the configured connection string
CLOUD_DATABASES == <<
    [name |-> "MongoDB Atlas (Cloud)", key |-> "mongodb-cloud", flags |-> FLAGS_MONGODB,
     container |-> NoneStr, db_type |-> "mongodb-cloud", port |-> None,
     image |-> NoneStr, cloud |-> TRUE, config_section |-> "mongodb_atlas",
     connection_string |-> "mongodb+srv://atlas"],
    [name |-> "Azure DocumentDB (Cloud)", key |-> "documentdb-azure",
     flags |-> FLAGS_DOCUMENTDB,
     container |-> NoneStr, db_type |-> "documentdb-azure", port |-> None,
     image |-> NoneStr, cloud |-> TRUE, config_section |-> "azure_documentdb",
     connection_string |-> "mongodb+srv://azure"] >>

\* every target is taken for a container target
IsCloud_never(db) == FALSE

\* db.get('cloud', False)
IsCloud(db) == "cloud" \in DOMAIN db /\ db.cloud

Containers == {DEFAULT_DATABASES[i].container : i \in DOMAIN DEFAULT_DATABASES}

\* docker rm -f <container_name>
DockerRm(run, container_name) == run \ {container_name}

\* What a call of start_database can come to:
\*   "pull_failed"  documentdb only: the image is absent and docker pull fails
\*   "run_failed"   docker run exits non-zero
\*   "timeout"      docker run succeeded, no readiness probe succeeded within
\*                  max_wait; the function returns without removing the container
\*   "verify_failed" documentdb only: a probe succeeded, the operational
\*                  verification did not; a warning is printed
\*   "init_failed"  a probe succeeded, initialize_database caught an exception
\*                  of one of its commands (postgresql, yugabytedb,
\*                  cockroachdb) and returned False; a warning is printed
\*   "ready"        a readiness probe succeeded, and so did what followed
StartOutcomes(db_type) ==
    {"run_failed", "timeout", "ready"}
    \cup (IF db_type = "documentdb" THEN {"pull_failed", "verify_failed"} ELSE {})
    \cup (IF db_type \in {"postgresql", "yugabytedb", "cockroachdb"}
          THEN {"init_failed"} ELSE {})

\* the result of start_docker_container is returned without waiting for a probe
StartSucceeded_unprobed(outcome) == outcome \notin {"pull_failed", "run_failed"}

\* start_database returns (True, version_info) once a probe has succeeded: the
\* two steps after it only print a warning when they fail
StartSucceeded(outcome) == outcome \in {"ready", "verify_failed", "init_failed"}

\* The containers running when start_database returns: start_docker_container
\* first removes a container of that name, and docker run creates one.
StartDatabase(run, container_name, outcome) ==
    IF outcome \in {"pull_failed", "run_failed"}
    THEN DockerRm(run, container_name)
    ELSE DockerRm(run, container_name) \cup {container_name}

\* stop_all_databases: docker rm -f for every target that is not a cloud target
StopAllDatabases(run, dbs) ==
    run \ {dbs[i].container : i \in {j \in DOMAIN dbs : ~IsCloud(dbs[j])}}

\* the stop leaves the containers as they are
StopDatabase_noop(run, container_name) == run

\* stop_database: docker rm -f <container_name>, then a 2 s sleep
StopDatabase(run, container_name) == DockerRm(run, container_name)

----------------------------------------------------------------------------
(* check_ready.                                                            *)

\* Texts a probe can print (2>&1: error messages are part of the output)
OUT_ONE == <<"1">>
OUT_REFUSED == <<"M", "o", "n", "g", "o", "N", "e", "t", "w", "o", "r", "k", "E", "r", "r", "o", "r", ":", " ", "c", "o", "n", "n", "e", "c", "t", " ", "E", "C", "O", "N", "N", "R", "E", "F", "U", "S", "E", "D", " ", "1", "2", "7", ".", "0", ".", "0", ".", "1", ":", "2", "7", "0", "1", "7">>
OUT_OK_ONE == <<"{", " ", "o", "k", ":", " ", "1", " ", "}">>
OUT_RUNNING == <<"S", "t", "a", "t", "u", "s", ":", " ", "R", "u", "n", "n", "i", "n", "g">>
OUT_STOPPED == <<"S", "t", "a", "t", "u", "s", ":", " ", "S", "t", "o", "p", "p", "e", "d">>
OUT_ACCEPTING == <<"a", "c", "c", "e", "p", "t", "i", "n", "g", " ", "c", "o", "n", "n", "e", "c", "t", "i", "o", "n", "s">>
OUT_EMPTY == <<>>

S_1 == <<"1">>
S_ok == <<"o", "k">>
S_Running == <<"R", "u", "n", "n", "i", "n", "g">>

\* A probe command ran to completion with this exit code and output, or ran
\* into the timeout given to subprocess.run.
Probe(rc, out) == [kind |-> "completed", returncode |-> rc, stdout |-> out]
ProbeTimeout == [kind |-> "timeout", returncode |-> None, stdout |-> <<>>]

ProbeOutcomes ==
    {Probe(0, OUT_ONE), Probe(1, OUT_REFUSED), Probe(0, OUT_OK_ONE),
     Probe(0, OUT_RUNNING), Probe(0, OUT_STOPPED), Probe(0, OUT_ACCEPTING),
     Probe(1, OUT_EMPTY), ProbeTimeout}

\* check_ready(container_name, db_type).  obs:
\*   listed  docker ps names the container
\*   ping    documentdb: the pymongo ping from the host succeeded
\*   host    documentdb: the mongosh probe run on the host
\*   exec    the probe run inside the container (docker exec)
CheckReady(db_type, obs) ==
    IF ~obs.listed THEN FALSE
    ELSE IF db_type = "mongodb"
    THEN Contains(obs.exec.stdout, S_1)
    ELSE IF db_type = "documentdb"
    THEN \/ obs.ping
         \/ /\ obs.host.kind = "completed"
            /\ Contains(obs.host.stdout, S_ok)
            /\ Contains(obs.host.stdout, S_1)
         \/ /\ obs.exec.kind = "completed"
            /\ obs.exec.returncode = 0
            /\ Contains(obs.exec.stdout, S_1)
    ELSE IF db_type = "postgresql"
    THEN obs.exec.kind = "completed" /\ obs.exec.returncode = 0
    ELSE IF db_type = "yugabytedb"
    THEN /\ obs.exec.kind = "completed"
         /\ obs.exec.returncode = 0
         /\ Contains(obs.exec.stdout, S_Running)
    ELSE IF db_type = "cockroachdb"
    THEN obs.exec.kind = "completed" /\ obs.exec.returncode = 0
    ELSE FALSE

ReadyIdle ==
    /\ cpc = "idle"
    /\ c_db = DEFAULT_DATABASES[1]
    /\ c_obs = [listed |-> FALSE]
    /\ c_ready = FALSE

\* The parts of the state a specification does not use stay at these values.
BenchIdle ==
    /\ call = [db_flags |-> <<>>]
    /\ proc_stdout = <<>>
    /\ proc_result = [kind |-> "none"]
    /\ response = [success |-> FALSE, error |-> "not returned"]
    /\ bpc = "idle"
    /\ launches = 0

LifeIdle ==
    /\ lpc = "idle"
    /\ l_db = DEFAULT_DATABASES[1]
    /\ l_outcome = "none"

SuiteLocalsIdle ==
    /\ test_configs = <<>>
    /\ restart_per_test = FALSE
    /\ enable_queries = FALSE
    /\ enable_monitoring = FALSE
    /\ track_activity = FALSE
    /\ pc = "idle"
    /\ test_idx = 0
    /\ db_idx = 0
    /\ results = <<>>
    /\ current_container = NoneStr
    /\ current_db_name = NoneStr
    /\ monitor_proc = None
    /\ result = [success |-> FALSE, error |-> "not returned"]
    /\ activity_log = <<>>
    /\ monitors = 0
    /\ docker_log = <<>>

SuiteIdle ==
    /\ DATABASES = DEFAULT_DATABASES
    /\ SuiteLocalsIdle

RunIdle ==
    /\ mode = "main"
    /\ rpc = "idle"
    /\ randomize_order = FALSE
    /\ run_index_first = FALSE
    /\ results_storage = "none"
    /\ opens = 0
    /\ closes = 0
    /\ r_test_run_id = NoneStr
    /\ clock = 0
    /\ collected = <<>>
    /\ inserted = <<>>
    /\ pass_log = <<>>
    /\ original_databases = <<>>
    /\ backup = [status |-> "none", data |-> <<>>]

StoreIdle ==
    /\ spc = "idle"
    /\ s_storage = "none"
    /\ results_dict = <<>>
    /\ s_pos = 0
    /\ s_calls = <<>>
    /\ stored_count = 0

WaitIdle ==
    /\ wpc = "idle"
    /\ w_db = DEFAULT_DATABASES[1]
    /\ w_probes = 0
    /\ w_ready = FALSE
    /\ w_attempts = 0
    /\ w_verified = FALSE
    /\ w_ret = [ok |-> FALSE, version_info |-> NoneStr]
    /\ w_then = "none"

VersionIdle ==
    /\ vpc = "idle"
    /\ v_db_type = "mongodb"
    /\ connection_info = [user |-> FALSE, container |-> FALSE]
    /\ v_env = <<>>
    /\ v_ret = [version |-> NoneStr, tried |-> <<>>]

CallsIdle == StoreIdle /\ WaitIdle /\ VersionIdle

\* Containers of earlier runs may be up when the lifecycle starts.
InitLife ==
    /\ running \in SUBSET Containers
    /\ LifeIdle
    /\ SuiteIdle
    /\ ReadyIdle
    /\ RunIdle
    /\ BenchIdle
    /\ CallsIdle

\* start_database(db['container'], db['db_type'])
CallStartDatabase ==
    /\ lpc \in {"idle", "stopped"}
    /\ \E i \in DOMAIN DEFAULT_DATABASES :
        \E outcome \in StartOutcomes(DEFAULT_DATABASES[i].db_type) :
            /\ l_db' = DEFAULT_DATABASES[i]
            /\ l_outcome' = outcome
            /\ running' = StartDatabase(running, DEFAULT_DATABASES[i].container, outcome)
    /\ lpc' = "started"
    /\ UNCHANGED benchVars
    /\ UNCHANGED suiteVars
    /\ UNCHANGED readyVars
    /\ UNCHANGED runVars
    /\ UNCHANGED callVars

\* stop_database(db['container']) right after the start
CallStopDatabase ==
    /\ lpc = "started"
    /\ running' = StopDatabase(running, l_db.container)
    /\ lpc' = "stopped"
    /\ UNCHANGED <<l_db, l_outcome>>
    /\ UNCHANGED benchVars
    /\ UNCHANGED suiteVars
    /\ UNCHANGED readyVars
    /\ UNCHANGED runVars
    /\ UNCHANGED callVars

----------------------------------------------------------------------------
(* Calls of run_benchmark: the inputs the call is explored on.             *)

MaxLines == 2
MaxFlagTokens == 3

\* SINGLE_ATTR_TESTS[0] and MULTI_ATTR_TESTS[1]
TEST_10B  == [size |-> 10, attrs |-> 1]
TEST_200B == [size |-> 200, attrs |-> 10]

\* (document count, payload size) a report line may state
LineParams == {<<NUM_DOCS, 10>>, <<5000, 10>>, <<NUM_DOCS, 200>>}
InsertTimes == {0, 200, 600}

InsertLines ==
    {PayloadLine(p, dp[1], dp[2], a, ms) :
        p \in InsertPhrases, dp \in LineParams, a \in {1, 10}, ms \in InsertTimes}
    \cup
    {RealisticLine(p, dp[1], dp[2], ms) :
        p \in InsertPhrases, dp \in LineParams, ms \in InsertTimes}

\* (ids, ms) a query line may state
QueryLines ==
    {QueryLine(p, im[1], l, im[2]) :
        p \in {"best", "total"},
        im \in {<<10000, 500>>, <<10000, 0>>, <<9000, 600>>},
        l \in {QUERY_LINKS, 5}}

LatencyLines == {LatencyLine("insert", j) : j \in {"stats", "invalid"}}

SeqsUpTo(S, n) == UNION {[1..k -> S] : k \in 0..n}

\* (returncode, stderr)
Exits == {<<0, "">>, <<1, "Exception in thread main">>}

Completed(out, exit) ==
    [kind |-> "completed", stdout |-> out,
     returncode |-> exit[1], stderr |-> exit[2]]

\* What can become of the process once it has printed out: it exits, or
\* subprocess.run raises (the captured output is then discarded).
ProcOutcomes(out) ==
    {Completed(out, e) : e \in Exits}
    \cup
    {[kind |-> "jar_missing"], [kind |-> "timeout"],
     [kind |-> "exception", msg |-> "[Errno 12] Cannot allocate memory"]}

FlagTokens == {F_i, F_mv, F_rd, F_p, F_ddb, F_id, F_mvc}
FlagStrings == {Join(ts) : ts \in SeqsUpTo(FlagTokens, MaxFlagTokens)}

Call(db_flags, test, query_links, collect_latency) ==
    [db_flags |-> db_flags, size |-> test.size, attrs |-> test.attrs,
     num_docs |-> NUM_DOCS, query_links |-> query_links, db_type |-> "mongodb",
     test_run_id |-> "run-1", collect_latency |-> collect_latency]

NoProc == [kind |-> "running"]
NoResponse == [success |-> FALSE, error |-> "not returned"]

\* Calls with the flags of the first target; the generator has printed nothing yet.
InitBench ==
    /\ call \in {Call(FLAGS_MONGODB, TEST_10B, q, FALSE) : q \in {None, QUERY_LINKS}}
    /\ proc_stdout = <<>>
    /\ proc_result = NoProc
    /\ response = NoResponse
    /\ bpc = "running"
    /\ launches = 0
    /\ running = {}
    /\ LifeIdle
    /\ SuiteIdle
    /\ ReadyIdle
    /\ RunIdle
    /\ CallsIdle

\* Calls with any flag string; the generator has printed a report that parses,
\* and possibly a latency line.
InitFlags ==
    /\ \E f \in FlagStrings, t \in {TEST_10B, TEST_200B}, q \in {None, QUERY_LINKS},
          lat \in BOOLEAN :
          call = Call(f, t, q, lat)
    /\ \E out \in SeqsUpTo(LatencyLines, 1) :
          proc_stdout = <<PayloadLine("Best time", NUM_DOCS, call.size, call.attrs, 200)>> \o out
    /\ proc_result = NoProc
    /\ response = NoResponse
    /\ bpc = "running"
    /\ launches = 0
    /\ running = {}
    /\ LifeIdle
    /\ SuiteIdle
    /\ ReadyIdle
    /\ RunIdle
    /\ CallsIdle

\* The load generator writes one more line to its proc_stdout.
GeneratorPrints ==
    /\ bpc = "running"
    /\ Len(proc_stdout) < MaxLines
    /\ \E line \in InsertLines \cup QueryLines : proc_stdout' = Append(proc_stdout, line)
    /\ UNCHANGED <<call, proc_result, response, bpc, launches>>
    /\ UNCHANGED <<running, lpc, l_db, l_outcome>>
    /\ UNCHANGED suiteVars
    /\ UNCHANGED readyVars
    /\ UNCHANGED runVars
    /\ UNCHANGED callVars

\* run_benchmark from the end of the process to its return.
RunBenchmarkCall ==
    /\ bpc = "running"
    /\ \E p \in ProcOutcomes(proc_stdout) :
          /\ p.kind # "completed" => proc_stdout = <<>>
          /\ proc_result' = p
          /\ launches' = launches + Launches(p)
          /\ response' = RunBenchmark(call.db_flags, call.size, call.attrs,
                                      call.num_docs, call.query_links, call.db_type,
                                      call.test_run_id, call.collect_latency, p, 0)
    /\ bpc' = "returned"
    /\ UNCHANGED <<call, proc_stdout>>
    /\ UNCHANGED <<running, lpc, l_db, l_outcome>>
    /\ UNCHANGED suiteVars
    /\ UNCHANGED readyVars
    /\ UNCHANGED runVars
    /\ UNCHANGED callVars

----------------------------------------------------------------------------
(* run_test_suite.                                                         *)

\* a suite runs at most this many (target, test) pairs
MaxPairs == 4

SINGLE_ATTR_TESTS == <<
    [size |-> 10, attrs |-> 1, desc |-> "10B single attribute"],
    [size |-> 200, attrs |-> 1, desc |-> "200B single attribute"],
    [size |-> 1000, attrs |-> 1, desc |-> "1000B single attribute"],
    [size |-> 2000, attrs |-> 1, desc |-> "2000B single attribute"],
    [size |-> 4000, attrs |-> 1, desc |-> "4000B single attribute"] >>

\* main filters DATABASES by the command line and appends the enabled cloud
\* targets: every target list is a sublist of this one, in this order.
AllTargets == DEFAULT_DATABASES \o CLOUD_DATABASES

Nth(S, i) == CHOOSE x \in S : Cardinality({y \in S : y < x}) = i - 1
SubList(seq, S) == [i \in 1..Cardinality(S) |-> seq[Nth(S, i)]]

TargetLists ==
    {SubList(AllTargets, S) :
        S \in {T \in SUBSET DOMAIN AllTargets :
                 Cardinality(T) >= 1 /\ Cardinality(T) <= MaxPairs}}

TestLists == {SubSeq(SINGLE_ATTR_TESTS, 1, n) : n \in 1..MaxPairs}

\* What the load generator can come to in a suite: it reports the insert (and
\* the query when one was asked for), it dies without a report, or it hangs.
SuiteProcs(test, queries) ==
    {Completed(<<PayloadLine("Best time", NUM_DOCS, test.size, test.attrs, 200)>>
               \o (IF queries
                   THEN <<QueryLine("best", NUM_DOCS, QUERY_LINKS, 500)>>
                   ELSE <<>>),
               <<0, "">>),
     Completed(<<>>, <<1, "Exception in thread main">>),
     [kind |-> "timeout"]}

\* the switches run_benchmark appends to the command of the load generator
CmdSwitches(query_links, collect_latency) ==
    (IF collect_latency THEN <<"-latency">> ELSE <<>>)
    \o (IF query_links # None THEN <<"-q">> ELSE <<>>)

\* {"success": False, "error": "Database failed to start"}
StartFailed == Failure("Database failed to start")

\* {"success": False, "error": "Cloud database unreachable"}
CloudUnreachable == Failure("Cloud database unreachable")

\* the failure is recorded once, not once per test
FailedForAll_once(failure, tests) == <<failure>>

\* [failure for _ in test_configs]
FailedForAll(failure, tests) == [i \in 1..Len(tests) |-> failure]

\* results[key] = value
SetItem(res, key, value) == (key :> value) @@ res

\* the value is put in front of the list
AppendItem_front(res, key, value) == [res EXCEPT ![key] = <<value>> \o @]

\* results[key].append(value)
AppendItem(res, key, value) == [res EXCEPT ![key] = Append(@, value)]

\* An entry of the history of the calls a suite makes:
\*   "rm"       docker rm -f by stop_all_databases
\*   "start"    start_database (docker rm -f, docker run, docker exec probes)
\*   "stop"     stop_database (docker rm -f)
\*   "ping"     start_cloud_database
\*   "monitor"  start_monitoring
\*   "bench"    run_benchmark; ok: the command carries the -latency switch
LogEntry(op, db_container, key, test, ok) ==
    [op |-> op, container |-> db_container, key |-> key, test |-> test, ok |-> ok]

\* the key of the target current_container belongs to
KeyOfContainer(dbs, db_container) ==
    LET hits == {i \in DOMAIN dbs : dbs[i].container = db_container}
    IN  IF hits = {} THEN NoneStr ELSE dbs[Nth(hits, 1)].key

\* Where the restart-per-test loops go next: the next target of this test,
\* else the first target of the next test, else the end of the suite.
RestartAdvance(t, d, nTests, nDbs) ==
    IF d < nDbs THEN [pc |-> "r_start", test_idx |-> t, db_idx |-> d + 1]
    ELSE IF t < nTests THEN [pc |-> "r_start", test_idx |-> t + 1, db_idx |-> 1]
    ELSE [pc |-> "done", test_idx |-> t, db_idx |-> d]

\* the failed start ends the inner loop: the remaining targets miss this test
RestartAfterStartFailure_break(t, d, nTests, nDbs) ==
    RestartAdvance(t, nDbs, nTests, nDbs)

\* continue: on to the next target
RestartAfterStartFailure(t, d, nTests, nDbs) ==
    RestartAdvance(t, d, nTests, nDbs)

\* Where the persistent loop goes after a target: the next target, else the
\* final stop.
PersistentNextTarget(d, nDbs) ==
    IF d < nDbs THEN [pc |-> "p_start", db_idx |-> d + 1]
    ELSE [pc |-> "p_final", db_idx |-> d]

\* monitoring whenever it is enabled, whatever the target
TestEntry_anyTarget(prefix, monitoring, db) ==
    IF monitoring THEN prefix \o "_monitor" ELSE prefix \o "_bench"

\* the step after a start or after a test: monitoring when it applies
TestEntry(prefix, monitoring, db) ==
    IF monitoring /\ ~IsCloud(db) THEN prefix \o "_monitor" ELSE prefix \o "_bench"

\* no monitor is ever stopped
Monitored_never(monitoring, db, proc) == FALSE

\* if enable_monitoring and not is_cloud and monitor_proc: the monitor of the
\* test is running and stop_monitoring ends it (SIGTERM to its process group,
\* SIGKILL after 10 s)
Monitored(monitoring, db, proc) == monitoring /\ ~IsCloud(db) /\ proc # None

\* result['mongodb_document']['resource_metrics'] = resource_summary
AttachSummary(res, summary) ==
    IF "mongodb_document" \in DOMAIN res /\ summary # 0
    THEN [res EXCEPT !.mongodb_document.resource_metrics = summary]
    ELSE res

NoResult == [success |-> FALSE, error |-> "not returned"]

\* run_test_suite is about to be called, after stop_all_databases: results = {}
\* and, in restart-per-test mode, an empty list per target.
InitSuite ==
    /\ DATABASES \in TargetLists
    /\ test_configs \in TestLists
    /\ Len(DATABASES) * Len(test_configs) <= MaxPairs
    /\ restart_per_test \in BOOLEAN
    /\ enable_queries \in BOOLEAN
    /\ enable_monitoring \in BOOLEAN
    /\ track_activity = ~restart_per_test
    /\ pc = "stop_all"
    /\ test_idx = 1
    /\ db_idx = 1
    /\ results = IF restart_per_test
                 THEN [k \in {DATABASES[i].key : i \in DOMAIN DATABASES} |-> <<>>]
                 ELSE <<>>
    /\ current_container = NoneStr
    /\ current_db_name = NoneStr
    /\ monitor_proc = None
    /\ result = NoResult
    /\ activity_log = <<>>
    /\ monitors = 0
    /\ docker_log = <<>>
    /\ running = {}
    /\ LifeIdle
    /\ BenchIdle
    /\ ReadyIdle
    /\ RunIdle
    /\ CallsIdle

suiteArgs == <<DATABASES, test_configs, restart_per_test, enable_queries,
               enable_monitoring, track_activity>>
otherVars == <<call, proc_stdout, proc_result, response, bpc, launches, lpc, l_db,
               cpc, c_db, c_obs, c_ready>>

\* stop_all_databases(), called before the suite: one docker rm -f per target
\* that is not a cloud target, in the order of DATABASES.
CallStopAllDatabases ==
    /\ pc = "stop_all"
    /\ LET local == SelectSeq(DATABASES, LAMBDA db : ~IsCloud(db))
       IN  docker_log' = docker_log \o
               [i \in 1..Len(local) |->
                   LogEntry("rm", local[i].container, local[i].key, 0, TRUE)]
    /\ running' = StopAllDatabases(running, DATABASES)
    /\ pc' = IF restart_per_test THEN "r_start" ELSE "p_start"
    /\ UNCHANGED <<test_idx, db_idx, results, current_container, current_db_name,
                   monitor_proc, result, activity_log, monitors>>
    /\ UNCHANGED suiteArgs
    /\ l_outcome' = "none"
    /\ UNCHANGED otherVars
    /\ UNCHANGED runVars
    /\ UNCHANGED callVars

\* Restart-per-test mode: start the target for this test.
RestartStart ==
    /\ pc = "r_start"
    /\ LET db == DATABASES[db_idx]
           fail == RestartAfterStartFailure(test_idx, db_idx,
                                            Len(test_configs), Len(DATABASES))
       IN  \E outcome \in (IF IsCloud(db) THEN {"unreachable", "ready"}
                           ELSE StartOutcomes(db.db_type)) :
             /\ running' = IF IsCloud(db) THEN running
                           ELSE StartDatabase(running, db.container, outcome)
             /\ docker_log' = Append(docker_log,
                    LogEntry(IF IsCloud(db) THEN "ping" ELSE "start",
                             db.container, db.key, test_idx, StartSucceeded(outcome)))
             /\ IF ~StartSucceeded(outcome)
                THEN /\ results' = AppendItem(results, db.key, StartFailed)
                     /\ pc' = fail.pc
                     /\ test_idx' = fail.test_idx
                     /\ db_idx' = fail.db_idx
                     /\ UNCHANGED monitor_proc
                ELSE /\ monitor_proc' = None
                     /\ pc' = TestEntry("r", enable_monitoring, db)
                     /\ UNCHANGED <<results, test_idx, db_idx>>
             /\ IF IsCloud(db)
                THEN l_outcome' = "none" /\ UNCHANGED l_db
                ELSE l_db' = db /\ l_outcome' = outcome
    /\ UNCHANGED <<current_container, current_db_name, result, activity_log, monitors>>
    /\ UNCHANGED suiteArgs
    /\ UNCHANGED <<benchVars, readyVars, lpc>>
    /\ UNCHANGED runVars
    /\ UNCHANGED callVars

\* start_monitoring: the monitor process is up after a second, or it is not.
StartMonitoring ==
    /\ pc \in {"r_monitor", "p_monitor"}
    /\ \E up \in BOOLEAN :
          /\ monitor_proc' = IF up THEN 1 ELSE None
          /\ monitors' = IF up THEN monitors + 1 ELSE monitors
    /\ docker_log' = Append(docker_log,
           LogEntry("monitor", DATABASES[db_idx].container, DATABASES[db_idx].key,
                    test_idx, TRUE))
    /\ pc' = IF pc = "r_monitor" THEN "r_bench" ELSE "p_bench"
    /\ UNCHANGED <<test_idx, db_idx, results, current_container, current_db_name,
                   result, activity_log, running>>
    /\ UNCHANGED suiteArgs
    /\ l_outcome' = "none"
    /\ UNCHANGED otherVars
    /\ UNCHANGED runVars
    /\ UNCHANGED callVars

\* result = run_benchmark(db['flags'], test['size'], test['attrs'], NUM_DOCS, ...)
SuiteRunBenchmark ==
    /\ pc \in {"r_bench", "p_bench"}
    /\ LET db == DATABASES[db_idx]
           test == test_configs[test_idx]
           query_links == IF enable_queries THEN QUERY_LINKS ELSE None
           use_latency == IsCloud(db)
       IN  /\ \E p \in SuiteProcs(test, enable_queries) :
                result' = RunBenchmark(db.flags, test.size, test.attrs, NUM_DOCS,
                                       query_links, db.db_type, "run-1",
                                       use_latency, p, 0)
           /\ docker_log' = Append(docker_log,
                  LogEntry("bench", db.container, db.key, test_idx,
                           "-latency" \in Range(CmdSwitches(query_links, use_latency))))
    /\ pc' = IF pc = "r_bench" THEN "r_collect" ELSE "p_collect"
    /\ UNCHANGED <<test_idx, db_idx, results, current_container, current_db_name,
                   monitor_proc, activity_log, monitors, running>>
    /\ UNCHANGED suiteArgs
    /\ l_outcome' = "none"
    /\ UNCHANGED otherVars
    /\ UNCHANGED runVars
    /\ UNCHANGED callVars

\* Stop the monitor, attach its summary, append the result to the target's list.
\* In restart-per-test mode the stop of the container follows; in persistent
\* mode the next test or the next target.
Collect ==
    /\ pc \in {"r_collect", "p_collect"}
    /\ LET db == DATABASES[db_idx]
           monitored == Monitored(enable_monitoring, db, monitor_proc)
           next == PersistentNextTarget(db_idx, Len(DATABASES))
       IN  /\ \E summary \in (IF monitored /\ "mongodb_document" \in DOMAIN result
                              THEN {0, 1} ELSE {0}) :
                results' = AppendItem(results, db.key, AttachSummary(result, summary))
           /\ monitors' = IF monitored THEN monitors - 1 ELSE monitors
           /\ IF pc = "r_collect"
              THEN /\ pc' = "r_stop"
                   /\ UNCHANGED <<test_idx, db_idx, monitor_proc>>
              ELSE IF test_idx < Len(test_configs)
              THEN /\ test_idx' = test_idx + 1
                   /\ monitor_proc' = None
                   /\ pc' = TestEntry("p", enable_monitoring, db)
                   /\ UNCHANGED db_idx
              ELSE /\ pc' = next.pc
                   /\ db_idx' = next.db_idx
                   /\ UNCHANGED <<test_idx, monitor_proc>>
    /\ UNCHANGED <<current_container, current_db_name, result, activity_log,
                   docker_log, running>>
    /\ UNCHANGED suiteArgs
    /\ l_outcome' = "none"
    /\ UNCHANGED otherVars
    /\ UNCHANGED runVars
    /\ UNCHANGED callVars

\* Restart-per-test mode: stop the container right after the test (not for a
\* cloud target), then on to the next target or test.
RestartStop ==
    /\ pc = "r_stop"
    /\ LET db == DATABASES[db_idx]
           next == RestartAdvance(test_idx, db_idx, Len(test_configs), Len(DATABASES))
       IN  /\ IF IsCloud(db)
              THEN UNCHANGED <<running, docker_log>>
              ELSE /\ running' = StopDatabase(running, db.container)
                   /\ docker_log' = Append(docker_log,
                          LogEntry("stop", db.container, db.key, test_idx, TRUE))
           /\ pc' = next.pc
           /\ test_idx' = next.test_idx
           /\ db_idx' = next.db_idx
    /\ UNCHANGED <<results, current_container, current_db_name, monitor_proc,
                   result, activity_log, monitors>>
    /\ UNCHANGED suiteArgs
    /\ l_outcome' = "none"
    /\ UNCHANGED otherVars
    /\ UNCHANGED runVars
    /\ UNCHANGED callVars

\* Persistent mode, a cloud target: verify connectivity; no container.
PersistentStartCloud ==
    /\ pc = "p_start"
    /\ IsCloud(DATABASES[db_idx])
    /\ LET db == DATABASES[db_idx]
           next == PersistentNextTarget(db_idx, Len(DATABASES))
       IN  \E reachable \in BOOLEAN :
             /\ docker_log' = Append(docker_log,
                    LogEntry("ping", db.container, db.key, 0, reachable))
             /\ IF ~reachable
                THEN /\ results' = SetItem(results, db.key,
                                       FailedForAll(CloudUnreachable, test_configs))
                     /\ pc' = next.pc
                     /\ db_idx' = next.db_idx
                     /\ UNCHANGED <<test_idx, monitor_proc>>
                ELSE /\ results' = SetItem(results, db.key, <<>>)
                     /\ test_idx' = 1
                     /\ monitor_proc' = None
                     /\ pc' = TestEntry("p", enable_monitoring, db)
                     /\ UNCHANGED db_idx
    /\ UNCHANGED <<current_container, current_db_name, result, activity_log,
                   monitors, running>>
    /\ UNCHANGED suiteArgs
    /\ l_outcome' = "none"
    /\ UNCHANGED otherVars
    /\ UNCHANGED runVars
    /\ UNCHANGED callVars

\* Persistent mode, a container target: stop the container of the previous
\* target if there is one, then start this one.
PersistentStart ==
    /\ pc = "p_start"
    /\ ~IsCloud(DATABASES[db_idx])
    /\ LET db == DATABASES[db_idx]
           next == PersistentNextTarget(db_idx, Len(DATABASES))
           switch == db.container # current_container
           stopPrev == switch /\ current_container # NoneStr
           run1 == IF stopPrev THEN StopDatabase(running, current_container)
                   ELSE running
           log1 == IF stopPrev
                   THEN Append(docker_log,
                            LogEntry("stop", current_container,
                                     KeyOfContainer(DATABASES, current_container),
                                     0, TRUE))
                   ELSE docker_log
           act1 == IF stopPrev /\ track_activity /\ current_db_name # NoneStr
                   THEN Append(activity_log,
                            [database |-> current_db_name, event |-> "stopped"])
                   ELSE activity_log
       IN  \E outcome \in (IF switch THEN StartOutcomes(db.db_type) ELSE {"kept"}) :
             /\ running' = IF switch THEN StartDatabase(run1, db.container, outcome)
                           ELSE running
             /\ docker_log' = IF switch
                              THEN Append(log1, LogEntry("start", db.container, db.key,
                                                         0, StartSucceeded(outcome)))
                              ELSE docker_log
             /\ IF switch /\ ~StartSucceeded(outcome)
                THEN /\ results' = SetItem(results, db.key,
                                       FailedForAll(StartFailed, test_configs))
                     /\ activity_log' = act1
                     /\ pc' = next.pc
                     /\ db_idx' = next.db_idx
                     /\ UNCHANGED <<test_idx, monitor_proc, current_container,
                                    current_db_name>>
                ELSE /\ results' = SetItem(results, db.key, <<>>)
                     /\ current_container' = db.container
                     /\ current_db_name' = db.name
                     /\ activity_log' =
                            IF switch /\ track_activity
                            THEN Append(act1, [database |-> db.name, event |-> "started"])
                            ELSE act1
                     /\ test_idx' = 1
                     /\ monitor_proc' = None
                     /\ pc' = TestEntry("p", enable_monitoring, db)
                     /\ UNCHANGED db_idx
             /\ IF switch
                THEN l_db' = db /\ l_outcome' = outcome
                ELSE l_outcome' = "none" /\ UNCHANGED l_db
    /\ UNCHANGED <<result, monitors>>
    /\ UNCHANGED suiteArgs
    /\ UNCHANGED <<benchVars, readyVars, lpc>>
    /\ UNCHANGED runVars
    /\ UNCHANGED callVars

\* Persistent mode: stop the last container, if one is believed to be running.
PersistentFinalStop ==
    /\ pc = "p_final"
    /\ IF current_container # NoneStr
       THEN /\ running' = StopDatabase(running, current_container)
            /\ docker_log' = Append(docker_log,
                   LogEntry("stop", current_container,
                            KeyOfContainer(DATABASES, current_container), 0, TRUE))
            /\ activity_log' =
                   IF track_activity /\ current_db_name # NoneStr
                   THEN Append(activity_log,
                            [database |-> current_db_name, event |-> "stopped"])
                   ELSE activity_log
       ELSE UNCHANGED <<running, docker_log, activity_log>>
    /\ pc' = "done"
    /\ UNCHANGED <<test_idx, db_idx, results, current_container, current_db_name,
                   monitor_proc, result, monitors>>
    /\ UNCHANGED suiteArgs
    /\ l_outcome' = "none"
    /\ UNCHANGED otherVars
    /\ UNCHANGED runVars
    /\ UNCHANGED callVars

NextSuite ==
    \/ CallStopAllDatabases
    \/ RestartStart
    \/ StartMonitoring
    \/ SuiteRunBenchmark
    \/ Collect
    \/ RestartStop
    \/ PersistentStartCloud
    \/ PersistentStart
    \/ PersistentFinalStop

\* One call of check_ready on a container target.  The mongodb probe is run
\* without a timeout; the others can run into theirs.
InitReady ==
    /\ cpc = "probing"
    /\ c_db \in {DEFAULT_DATABASES[i] : i \in DOMAIN DEFAULT_DATABASES}
    /\ c_obs \in [listed : BOOLEAN, ping : BOOLEAN,
                  host : ProbeOutcomes, exec : ProbeOutcomes]
    /\ c_db.db_type = "mongodb" => c_obs.exec.kind = "completed"
    /\ c_db.db_type # "documentdb" => (~c_obs.ping /\ c_obs.host = ProbeTimeout)
    /\ c_ready = FALSE
    /\ running = {}
    /\ BenchIdle
    /\ LifeIdle
    /\ SuiteIdle
    /\ RunIdle
    /\ CallsIdle

CheckReadyCall ==
    /\ cpc = "probing"
    /\ c_ready' = CheckReady(c_db.db_type, c_obs)
    /\ cpc' = "returned"
    /\ UNCHANGED <<c_db, c_obs, running>>
    /\ UNCHANGED benchVars
    /\ UNCHANGED lifeVars
    /\ UNCHANGED suiteVars
    /\ UNCHANGED runVars
    /\ UNCHANGED callVars

NextReady == CheckReadyCall

----------------------------------------------------------------------------
(* One run: main and run_full_comparison_suite.                            *)

\* a run works on at most this many targets
MaxRunTargets == 2

MULTI_ATTR_TESTS == <<
    [size |-> 10, attrs |-> 10, desc |-> "10 attributes x 1B = 10B"],
    [size |-> 200, attrs |-> 10, desc |-> "10 attributes x 20B = 200B"],
    [size |-> 1000, attrs |-> 50, desc |-> "50 attributes x 20B = 1000B"],
    [size |-> 2000, attrs |-> 100, desc |-> "100 attributes x 20B = 2000B"],
    [size |-> 4000, attrs |-> 200, desc |-> "200 attributes x 20B = 4000B"] >>

\* the target lists main can hand to a run
RunTargetLists == {dbs \in TargetLists : Len(dbs) <= MaxRunTargets}

\* s.replace(old, ''): the occurrences of old, found from left to right
\* without overlap, are taken out
RECURSIVE Remove(_, _)
Remove(s, old) ==
    IF Len(s) < Len(old) THEN s
    ELSE IF SubSeq(s, 1, Len(old)) = old
         THEN Remove(SubSeq(s, Len(old) + 1, Len(s)), old)
         ELSE <<s[1]>> \o Remove(Tail(s), old)

\* only the first of the four replacements is made
StripIndexFlags_first(flags) == Remove(flags, <<Sp>> \o F_i)

\* db['flags'].replace(' -i', '').replace('-i ', '').replace(' -mv', '')
\*            .replace('-mv ', '')
StripIndexFlags(flags) ==
    Remove(Remove(Remove(Remove(flags, <<Sp>> \o F_i), F_i \o <<Sp>>),
                  <<Sp>> \o F_mv), F_mv \o <<Sp>>)

\* for db in DATABASES: db['flags'] = <stripped flags>
StripAll(dbs) ==
    [i \in DOMAIN dbs |-> [dbs[i] EXCEPT !.flags = StripIndexFlags(@)]]

\* the positions of a run at which it calls run_test_suite, and what follows
SuitePositions ==
    {"m_single", "m_multi",
     "f_noindex_single", "f_noindex_multi", "f_indexed_single", "f_indexed_multi"}

AfterSuite(at) ==
    CASE at = "m_single" -> "m_multi"
      [] at = "m_multi" -> "m_store"
      [] at = "f_noindex_single" -> "f_noindex_multi"
      [] at = "f_noindex_multi" -> "f_restore"
      [] at = "f_indexed_single" -> "f_indexed_multi"
      [] at = "f_indexed_multi" -> "f_store"

\* which pass of the run a suite belongs to
PassOf(at) ==
    IF at \in {"f_noindex_single", "f_noindex_multi"} THEN "no_index"
    ELSE IF at \in {"f_indexed_single", "f_indexed_multi"} THEN "indexed"
    ELSE "main"

\* enable_queries of the suite: the indexed pass asks for queries
QueriesOf(at) == at \in {"f_indexed_single", "f_indexed_multi"}

\* the suite's test cases: here the first of its table
TestOf(at) ==
    IF at \in {"m_single", "f_noindex_single", "f_indexed_single"}
    THEN SINGLE_ATTR_TESTS[1] ELSE MULTI_ATTR_TESTS[1]

\* the load generator reports the insert (and the query when asked for)
ReportingProc(test, queries) ==
    Completed(<<PayloadLine("Best time", NUM_DOCS, test.size, test.attrs, 200)>>
              \o (IF queries
                  THEN <<QueryLine("best", NUM_DOCS, QUERY_LINKS, 500)>>
                  ELSE <<>>),
              <<0, "">>)

\* What a suite that returns adds to the results of the run: per target the
\* result of run_benchmark, called one tick after the other from `now` on.
\* hung: the target whose load generator hung (0: none did), the others'
\* reported.
SuiteResults(at, dbs, id, now, hung) ==
    [i \in DOMAIN dbs |->
        [suite |-> at,
         key |-> dbs[i].key,
         built |-> now + i,
         result |-> RunBenchmark(dbs[i].flags, TestOf(at).size, TestOf(at).attrs,
                                 NUM_DOCS,
                                 IF QueriesOf(at) THEN QUERY_LINKS ELSE None,
                                 dbs[i].db_type, id, IsCloud(dbs[i]),
                                 IF i = hung THEN [kind |-> "timeout"]
                                 ELSE ReportingProc(TestOf(at), QueriesOf(at)),
                                 now + i)]]

\* the value of a digit character
DigitValue(c) == CHOOSE d \in 0..9 : Digits[d + 1] = c

\* datetime.fromisoformat(s): the instant the str writes out
RECURSIVE FromIsoFormat(_)
FromIsoFormat(s) ==
    IF Len(s) = 1 THEN DigitValue(s[1])
    ELSE 10 * FromIsoFormat(SubSeq(s, 1, Len(s) - 1)) + DigitValue(s[Len(s)])

\* the timestamp is set to the time of storing
StoreTimestamp_now(ts, now) == [datetime |-> now]

\* store_test_result, the timestamp: a str becomes the datetime it writes
\* out, a datetime stays, anything else becomes datetime.now()
StoreTimestamp(ts, now) ==
    IF "str" \in DOMAIN ts THEN [datetime |-> FromIsoFormat(ts.str)]
    ELSE IF "datetime" \in DOMAIN ts THEN ts
    ELSE [datetime |-> now]

\* result.get('success') and result.get('mongodb_document')
Storable(res) == res.success /\ "mongodb_document" \in DOMAIN res

\* The results after store_results_to_mongodb has gone through them: the
\* document handed to store_test_result is the one the result holds, and its
\* timestamp is converted in place.
AfterStore(coll, now) ==
    [i \in DOMAIN coll |->
        IF Storable(coll[i].result)
        THEN [coll[i] EXCEPT !.result.mongodb_document.timestamp =
                                 StoreTimestamp(@, now)]
        ELSE coll[i]]

\* what insert_one receives, in order
Inserts(coll, now, open) ==
    LET stored == SelectSeq(AfterStore(coll, now), LAMBDA e : Storable(e.result))
    IN  [i \in DOMAIN stored |->
            [doc |-> stored[i].result.mongodb_document,
             built |-> stored[i].built, at |-> now, open |-> open]]

\* json.dump(output_data, f): a datetime is not JSON serializable (TypeError)
JsonSerializable(coll) ==
    \A i \in DOMAIN coll :
        Storable(coll[i].result) =>
            "str" \in DOMAIN coll[i].result.mongodb_document.timestamp

\* main or run_full_comparison_suite has been entered with the target list
\* main has made up.
InitRun ==
    /\ mode \in {"main", "full"}
    /\ randomize_order \in BOOLEAN
    /\ mode = "main" => ~randomize_order
    /\ DATABASES \in RunTargetLists
    /\ rpc = "connect"
    /\ run_index_first = FALSE
    /\ results_storage = "none"
    /\ opens = 0
    /\ closes = 0
    /\ r_test_run_id = NoneStr
    /\ clock = 0
    /\ collected = <<>>
    /\ inserted = <<>>
    /\ pass_log = <<>>
    /\ original_databases = <<>>
    /\ backup = [status |-> "none", data |-> <<>>]
    /\ running = {}
    /\ SuiteLocalsIdle
    /\ BenchIdle
    /\ LifeIdle
    /\ ReadyIdle
    /\ CallsIdle

runFrame == <<benchVars, lifeVars, readyVars, suiteLocals, running, callVars>>

\* The storage set-up: the storage module is missing ("unavailable": no
\* connection, no test_run_id), no connection string is configured, the
\* connection fails (connect_to_mongodb returns None), or it is made.
Connect ==
    /\ rpc = "connect"
    /\ \E outcome \in {"unavailable", "not_configured", "connect_failed", "connected"} :
          /\ results_storage' = IF outcome = "connected" THEN "open" ELSE "none"
          /\ opens' = IF outcome = "connected" THEN opens + 1 ELSE opens
          /\ r_test_run_id' = IF outcome = "unavailable" THEN NoneStr ELSE "uuid-1"
    /\ clock' = clock + 1
    /\ rpc' = IF mode = "full" THEN "f_order" ELSE "m_single"
    /\ UNCHANGED <<mode, randomize_order, run_index_first, closes, collected,
                   inserted, pass_log, original_databases, backup, DATABASES>>
    /\ UNCHANGED runFrame

\* original_databases = copy.deepcopy(DATABASES); run_index_first is False,
\* or random.choice([True, False]) when the order is randomized.
ChooseOrder ==
    /\ rpc = "f_order"
    /\ original_databases' = DATABASES
    /\ run_index_first' \in (IF randomize_order THEN BOOLEAN ELSE {FALSE})
    /\ rpc' = "f_strip"
    /\ UNCHANGED <<mode, randomize_order, results_storage, opens, closes,
                   r_test_run_id, clock, collected, inserted, pass_log, backup,
                   DATABASES>>
    /\ UNCHANGED runFrame

\* stop_all_databases(), then the index flags are taken out of every target
StripFlags ==
    /\ rpc = "f_strip"
    /\ DATABASES' = StripAll(DATABASES)
    /\ rpc' = "f_noindex_single"
    /\ UNCHANGED <<mode, randomize_order, run_index_first, results_storage, opens,
                   closes, r_test_run_id, clock, collected, inserted, pass_log,
                   original_databases, backup>>
    /\ UNCHANGED runFrame

\* One call of run_test_suite.  It returns its results, or an exception
\* leaves it: in main the finally clause is next, run_full_comparison_suite
\* has no handler.
RunSuite ==
    /\ rpc \in SuitePositions
    /\ pass_log' = Append(pass_log,
           [suite |-> rpc, pass |-> PassOf(rpc), queries |-> QueriesOf(rpc),
            flags |-> [i \in DOMAIN DATABASES |-> DATABASES[i].flags]])
    /\ \E raised \in BOOLEAN :
          IF raised
          THEN /\ rpc' = IF mode = "main" THEN "m_close_raising" ELSE "raised"
               /\ UNCHANGED collected
          ELSE /\ \E hung \in {0} \cup DOMAIN DATABASES :
                     collected' = collected \o
                         SuiteResults(rpc, DATABASES, r_test_run_id, clock, hung)
               /\ rpc' = AfterSuite(rpc)
    /\ clock' = clock + Len(DATABASES) + 1
    /\ UNCHANGED <<mode, randomize_order, run_index_first, results_storage, opens,
                   closes, r_test_run_id, inserted, original_databases, backup,
                   DATABASES>>
    /\ UNCHANGED runFrame

\* DATABASES = copy.deepcopy(original_databases), then stop_all_databases()
RestoreFlags ==
    /\ rpc = "f_restore"
    /\ DATABASES' = original_databases
    /\ rpc' = "f_indexed_single"
    /\ UNCHANGED <<mode, randomize_order, run_index_first, results_storage, opens,
                   closes, r_test_run_id, clock, collected, inserted, pass_log,
                   original_databases, backup>>
    /\ UNCHANGED runFrame

\* if results_storage: store_results_to_mongodb for every suite, in order.
\* insert_one goes through, or it raises and store_test_result returns None.
StoreResults ==
    /\ rpc \in {"m_store", "f_store"}
    /\ IF results_storage = "none"
       THEN UNCHANGED <<collected, inserted>>
       ELSE /\ collected' = AfterStore(collected, clock)
            /\ \E insert_ok \in BOOLEAN :
                  inserted' = IF insert_ok
                              THEN inserted \o
                                   Inserts(collected, clock, results_storage = "open")
                              ELSE inserted
    /\ clock' = clock + 1
    /\ rpc' = IF rpc = "m_store" THEN "m_close" ELSE "f_close"
    /\ UNCHANGED <<mode, randomize_order, run_index_first, results_storage, opens,
                   closes, r_test_run_id, pass_log, original_databases, backup,
                   DATABASES>>
    /\ UNCHANGED runFrame

\* if results_storage: results_storage.close(), in main from the finally
\* clause, with or without an exception on its way out
CloseStorage ==
    /\ rpc \in {"m_close", "m_close_raising", "f_close"}
    /\ IF results_storage = "none"
       THEN UNCHANGED <<results_storage, closes>>
       ELSE /\ results_storage' = "closed"
            /\ closes' = closes + 1
    /\ rpc' = CASE rpc = "m_close" -> "m_backup"
                [] rpc = "m_close_raising" -> "raised"
                [] rpc = "f_close" -> "f_backup"
    /\ UNCHANGED <<mode, randomize_order, run_index_first, opens, r_test_run_id,
                   clock, collected, inserted, pass_log, original_databases,
                   backup, DATABASES>>
    /\ UNCHANGED runFrame

\* The local JSON file: json.dump of the results.  When it raises, main
\* prints a warning and ends; run_full_comparison_suite lets the exception out.
WriteBackup ==
    /\ rpc \in {"m_backup", "f_backup"}
    /\ IF JsonSerializable(collected)
       THEN /\ backup' = [status |-> "written", data |-> collected]
            /\ rpc' = "done"
       ELSE /\ backup' = [status |-> "failed", data |-> <<>>]
            /\ rpc' = IF rpc = "m_backup" THEN "done" ELSE "raised"
    /\ clock' = clock + 1
    /\ UNCHANGED <<mode, randomize_order, run_index_first, results_storage, opens,
                   closes, r_test_run_id, collected, inserted, pass_log,
                   original_databases, DATABASES>>
    /\ UNCHANGED runFrame

NextRun ==
    \/ Connect
    \/ ChooseOrder
    \/ StripFlags
    \/ RunSuite
    \/ RestoreFlags
    \/ StoreResults
    \/ CloseStorage
    \/ WriteBackup

----------------------------------------------------------------------------
(* store_results_to_mongodb and ResultsStorage.store_test_result.           *)

\* a results dict holds at most this many results
MaxStored == 3

\* run_benchmark could not build the document (lines 1103-1104): the response
\* is returned without 'mongodb_document'
WithoutDocument(res) == [k \in DOMAIN res \ {"mongodb_document"} |-> res[k]]

\* What a suite can have collected for one test, the benchmark called at
\* instant now: a success with its document, a success without one, a failure.
TestResultOf(kind, now) ==
    LET test == SINGLE_ATTR_TESTS[1]
        res == RunBenchmark(FLAGS_MONGODB, test.size, test.attrs, NUM_DOCS, None,
                            "mongodb", "uuid-1", FALSE, ReportingProc(test, FALSE), now)
    IN  CASE kind = "document" -> res
          [] kind = "no_document" -> WithoutDocument(res)
          [] kind = "failed" -> Failure("Timeout")

ResultsDicts ==
    UNION {{[i \in 1..n |-> TestResultOf(kinds[i], i)] :
               kinds \in [1..n -> {"document", "no_document", "failed"}]} :
           n \in 0..MaxStored}

\* store_test_result: the timestamp of the document is converted in place and
\* insert_one is called; the id comes back as a str, or insert_one raised and
\* None comes back
StoreTestResult(doc, insert_ok, now) ==
    [document |-> [doc EXCEPT !.timestamp = StoreTimestamp(@, now)],
     stored_id |-> IF insert_ok THEN "id" ELSE NoneStr]

\* every call of store_test_result is counted
StoredCount_attempts(count, stored_id) == count + 1

\* if stored_id: stored_count += 1
StoredCount(count, stored_id) == IF stored_id # NoneStr THEN count + 1 ELSE count

InitStore ==
    /\ spc = "idle"
    /\ s_storage \in {"none", "unconnected", "connected"}
    /\ results_dict \in ResultsDicts
    /\ s_pos = 0
    /\ s_calls = <<>>
    /\ stored_count = 0
    /\ running = {}
    /\ BenchIdle
    /\ LifeIdle
    /\ SuiteIdle
    /\ ReadyIdle
    /\ RunIdle
    /\ WaitIdle
    /\ VersionIdle

storeFrame == <<benchVars, lifeVars, readyVars, suiteVars, runVars, running, waitVars,
                versionVars>>

\* if not results_storage or results_storage.collection is None: return 0
CallStoreResults ==
    /\ spc = "idle"
    /\ spc' = IF s_storage = "connected" THEN "loop" ELSE "returned"
    /\ UNCHANGED <<s_storage, results_dict, s_pos, s_calls, stored_count>>
    /\ UNCHANGED storeFrame

\* One turn of the loops: a result with success and a document goes to
\* store_test_result, any other is passed over.
StoreOne ==
    /\ spc = "loop"
    /\ s_pos < Len(results_dict)
    /\ LET at == s_pos + 1
           res == results_dict[at]
       IN  IF Storable(res)
           THEN \E insert_ok \in BOOLEAN :
                  LET out == StoreTestResult(res.mongodb_document, insert_ok, MaxStored + at)
                  IN  /\ s_calls' = Append(s_calls,
                             [op |-> "insert_one", at |-> at,
                              document |-> out.document, ok |-> insert_ok])
                      /\ results_dict' =
                             [results_dict EXCEPT ![at].mongodb_document = out.document]
                      /\ stored_count' = StoredCount(stored_count, out.stored_id)
           ELSE UNCHANGED <<s_calls, results_dict, stored_count>>
    /\ s_pos' = s_pos + 1
    /\ UNCHANGED <<spc, s_storage>>
    /\ UNCHANGED storeFrame

\* return stored_count
StoreReturn ==
    /\ spc = "loop"
    /\ s_pos = Len(results_dict)
    /\ spc' = "returned"
    /\ UNCHANGED <<s_storage, results_dict, s_pos, s_calls, stored_count>>
    /\ UNCHANGED storeFrame

NextStore == CallStoreResults \/ StoreOne \/ StoreReturn

----------------------------------------------------------------------------
(* start_database: the readiness loop, the DocumentDB operational check,   *)
(* the initialization, and the caller's branch on what is returned.        *)

wait_interval == 2
max_attempts == 15

\* max_wait = 180 if db_type == "documentdb" else 60
MaxWait(db_type) == IF db_type = "documentdb" THEN 180 ELSE 60

\* one probe per second of max_wait
MaxProbes_seconds(db_type) == MaxWait(db_type)

\* range(max_wait // wait_interval)
MaxProbes(db_type) == MaxWait(db_type) \div wait_interval

\* a failed operational check ends the start
AfterVerify_abort(verified) == IF verified THEN "initializing" ELSE "failed"

\* What follows _verify_documentdb_operational: a False only prints a warning,
\* the initialization is next either way.
AfterVerify(verified) == "initializing"

\* what follows a successful probe
AfterReady(db_type) == IF db_type = "documentdb" THEN "verifying" ELSE "initializing"

InitWait ==
    /\ wpc = "idle"
    /\ w_db \in Range(DEFAULT_DATABASES)
    /\ w_probes = 0
    /\ w_ready = FALSE
    /\ w_attempts = 0
    /\ w_verified = FALSE
    /\ w_ret = [ok |-> FALSE, version_info |-> NoneStr]
    /\ w_then = "none"
    /\ running = {}
    /\ BenchIdle
    /\ LifeIdle
    /\ SuiteIdle
    /\ ReadyIdle
    /\ RunIdle
    /\ StoreIdle
    /\ VersionIdle

waitFrame == <<benchVars, lifeVars, readyVars, suiteVars, runVars, storeVars,
               versionVars>>

\* start_docker_container: it fails and start_database returns (False, None),
\* or the container is created and the readiness loop is entered.
WaitBegin ==
    /\ wpc = "idle"
    /\ \E created \in BOOLEAN :
          /\ wpc' = IF created THEN "waiting" ELSE "returned"
          /\ running' = StartDatabase(running, w_db.container,
                                      IF created THEN "ready" ELSE "run_failed")
    /\ UNCHANGED <<w_db, w_probes, w_ready, w_attempts, w_verified, w_ret, w_then>>
    /\ UNCHANGED waitFrame

\* One turn of the readiness loop: time.sleep(wait_interval), check_ready.
WaitProbe ==
    /\ wpc = "waiting"
    /\ w_probes < MaxProbes(w_db.db_type)
    /\ w_probes' = w_probes + 1
    /\ \E ready \in BOOLEAN :
          /\ w_ready' = ready
          /\ wpc' = IF ready THEN AfterReady(w_db.db_type) ELSE "waiting"
    /\ UNCHANGED <<w_db, w_attempts, w_verified, w_ret, w_then>>
    /\ UNCHANGED <<running, waitFrame>>

\* The loop has run out: return False, None.
WaitTimeout ==
    /\ wpc = "waiting"
    /\ w_probes = MaxProbes(w_db.db_type)
    /\ w_ret' = [ok |-> FALSE, version_info |-> NoneStr]
    /\ wpc' = "returned"
    /\ UNCHANGED <<w_db, w_probes, w_ready, w_attempts, w_verified, w_then>>
    /\ UNCHANGED <<running, waitFrame>>

\* One attempt of _verify_documentdb_operational: the write and the read go
\* through (pymongo), or the query does (psql), and True is returned; or the
\* attempt fails and, after the last one, False is returned.
VerifyAttempt ==
    /\ wpc = "verifying"
    /\ w_attempts < max_attempts
    /\ w_attempts' = w_attempts + 1
    /\ \E passed \in BOOLEAN :
          /\ w_verified' = passed
          /\ wpc' = IF passed \/ w_attempts + 1 = max_attempts
                    THEN AfterVerify(passed) ELSE "verifying"
    /\ UNCHANGED <<w_db, w_probes, w_ready, w_ret, w_then>>
    /\ UNCHANGED <<running, waitFrame>>

\* initialize_database (a False only prints a warning), the version lookup,
\* return True, version_info.
WaitReturnReady ==
    /\ wpc = "initializing"
    /\ \E version \in {NoneStr, "8.0"} :
          w_ret' = [ok |-> TRUE, version_info |-> version]
    /\ wpc' = "returned"
    /\ UNCHANGED <<w_db, w_probes, w_ready, w_attempts, w_verified, w_then>>
    /\ UNCHANGED <<running, waitFrame>>

\* run_test_suite: if not db_started, the failed result is recorded and the
\* loop continues; else the test is run.
SuiteAfterStart ==
    /\ wpc = "returned"
    /\ w_then' = IF ~w_ret.ok THEN "failed_result" ELSE "benchmark"
    /\ wpc' = "suite"
    /\ UNCHANGED <<w_db, w_probes, w_ready, w_attempts, w_verified, w_ret>>
    /\ UNCHANGED <<running, waitFrame>>

NextWait ==
    \/ WaitBegin
    \/ WaitProbe
    \/ WaitTimeout
    \/ VerifyAttempt
    \/ WaitReturnReady
    \/ SuiteAfterStart

----------------------------------------------------------------------------
(* version_detector.get_database_version.                                  *)

\* What a lookup comes to when it is made: it gives a version, it completes
\* without one (no 'version' key, a nonzero return code, empty output), or it
\* raises (a driver error, subprocess.TimeoutExpired after 10 s).
LookupOutcomes == {"version", "fails", "raises"}

\* the version a lookup gives, named after the lookup
VersionBy(route) ==
    CASE route = "buildInfo" -> "version by buildInfo"
      [] route = "eval" -> "version by eval"
      [] route = "host" -> "version by host client"
      [] route = "docker" -> "version by docker exec"

Lookup(version, tried) == [version |-> version, tried |-> tried]

\* The two driver lookups of _get_mongodb_version, each in a try of its own:
\* nothing when pymongo cannot be imported.
DriverLookups(env) ==
    IF ~env.pymongo THEN Lookup(NoneStr, <<>>)
    ELSE IF env.buildInfo = "version"
    THEN Lookup(VersionBy("buildInfo"), <<"buildInfo">>)
    ELSE IF env.eval = "version"
    THEN Lookup(VersionBy("eval"), <<"buildInfo", "eval">>)
    ELSE Lookup(NoneStr, <<"buildInfo", "eval">>)

\* The command-line lookups, in the one try of the function: the client on
\* the host, then docker exec when the fallback applies.  An exception of a
\* command (its timeout) leaves the try: None is returned at once.
CommandLookups(env, fallback) ==
    IF env.host = "version" THEN Lookup(VersionBy("host"), <<"host">>)
    ELSE IF env.host = "raises" THEN Lookup(NoneStr, <<"host">>)
    ELSE IF ~fallback THEN Lookup(NoneStr, <<"host">>)
    ELSE IF env.docker = "version"
    THEN Lookup(VersionBy("docker"), <<"host", "docker">>)
    ELSE Lookup(NoneStr, <<"host", "docker">>)

\* _get_mongodb_version: buildInfo, eval of db.version(), mongosh from the
\* host, docker exec mongosh if a container is given and no user is.
GetMongodbVersion(info, env) ==
    LET driver == DriverLookups(env)
        command == CommandLookups(env, info.container /\ ~info.user)
    IN  IF driver.version # NoneStr THEN driver
        ELSE Lookup(command.version, driver.tried \o command.tried)

\* _get_postgresql_version: psql from the host, docker exec psql if a
\* container is given.
GetPostgresqlVersion(info, env) == CommandLookups(env, info.container)

\* get_database_version: the lookup of the db_type; None for oracle and for
\* a db_type it does not know; any exception is logged and None returned.
GetDatabaseVersion(db_type, info, env) ==
    IF db_type \in {"mongodb", "documentdb", "mongodb-cloud", "documentdb-azure"}
    THEN GetMongodbVersion(info, env)
    ELSE IF db_type = "postgresql" THEN GetPostgresqlVersion(info, env)
    ELSE Lookup(NoneStr, <<>>)

VersionDbTypes == {"mongodb", "documentdb", "mongodb-cloud", "postgresql", "oracle", "redis"}

InitVersion ==
    /\ vpc = "idle"
    /\ v_db_type \in VersionDbTypes
    /\ connection_info \in [user : BOOLEAN, container : BOOLEAN]
    /\ v_env \in [pymongo : BOOLEAN, buildInfo : LookupOutcomes, eval : LookupOutcomes,
                  host : LookupOutcomes, docker : LookupOutcomes]
    /\ v_env.pymongo \/ (v_env.buildInfo = "raises" /\ v_env.eval = "raises")
    /\ v_ret = [version |-> NoneStr, tried |-> <<>>]
    /\ running = {}
    /\ BenchIdle
    /\ LifeIdle
    /\ SuiteIdle
    /\ ReadyIdle
    /\ RunIdle
    /\ StoreIdle
    /\ WaitIdle

\* db_version = get_database_version(db_type, connection_info)
GetDatabaseVersionCall ==
    /\ vpc = "idle"
    /\ v_ret' = GetDatabaseVersion(v_db_type, connection_info, v_env)
    /\ vpc' = "returned"
    /\ UNCHANGED <<v_db_type, connection_info, v_env>>
    /\ UNCHANGED <<benchVars, lifeVars, readyVars, suiteVars, runVars, running,
                   storeVars, waitVars>>

NextVersion == GetDatabaseVersionCall

NextBench == GeneratorPrints \/ RunBenchmarkCall
NextFlags == RunBenchmarkCall

NextLife == CallStartDatabase \/ CallStopDatabase

SpecBench == InitBench /\ [][NextBench]_vars
SpecFlags == InitFlags /\ [][NextFlags]_vars
SpecLife == InitLife /\ [][NextLife]_vars
SpecSuite == InitSuite /\ [][NextSuite]_vars
SpecReady == InitReady /\ [][NextReady]_vars
SpecRun == InitRun /\ [][NextRun]_vars
SpecStore == InitStore /\ [][NextStore]_vars
SpecWait == InitWait /\ [][NextWait]_vars
SpecVersion == InitVersion /\ [][NextVersion]_vars

\* time.sleep and every probe, attempt and command of start_database return:
\* each is a subprocess with a timeout of its own or a driver call with a
\* server selection timeout, so a step that can be taken is taken.
SpecWaitFair == SpecWait /\ WF_vars(NextWait)

----------------------------------------------------------------------------
(* Properties of run_benchmark.                                            *)

Returned == bpc = "returned"
Ran == bpc = "returned" /\ proc_result.kind = "completed"

\* the whitespace-separated tokens of the flag string
FlagTokenSet(db_flags) == Range(Split(db_flags))

\* the positions of the report lines that state the requested document count
\* and payload size, in whichever of the three formats
ReportsFor(out, num_docs, size) ==
    {i \in 1..Len(out) :
        out[i].kind = "insert" /\ out[i].docs = num_docs /\ out[i].size = size}

SetMin(S) == CHOOSE m \in S : \A x \in S : m <= x

Abs(x) == IF x < 0 THEN 0 - x ELSE x

\* h hundredths is a nearest two-decimal value of count / (ms / 1000)
NearestHundredth(h, count, ms) == 2 * Abs(h * ms - count * 100000) <= ms

\* C5: the document's test_config.indexed is True exactly when the flag string
\* passed to run_benchmark has '-i' or '-mv' among its whitespace-separated
\* tokens; a flag of which '-i' or '-mv' is only a part does not make it True.
C5_IndexedIffIndexToken ==
    (Returned /\ "mongodb_document" \in DOMAIN response) =>
        (response.mongodb_document.test_config.indexed
            <=> (F_i \in FlagTokenSet(call.db_flags)
                 \/ F_mv \in FlagTokenSet(call.db_flags)))

\* C6: when stdout holds exactly one insert-report line for the requested
\* num_docs and size, reporting T > 0 ms, in any of the three formats and
\* either phrasing, run_benchmark returns success=True and time_ms=T.
C6_SingleReportGivesItsTime ==
    Ran =>
        \A i \in ReportsFor(proc_stdout, call.num_docs, call.size) :
            (ReportsFor(proc_stdout, call.num_docs, call.size) = {i}
             /\ proc_stdout[i].ms > 0)
            => (response.success /\ response.time_ms = proc_stdout[i].ms)

\* C7: the insert patterns are tried in a fixed order (requested attribute
\* count, any attribute count, realistic nested data) and the first that
\* matches gives the time; when no line reports the requested num_docs and
\* size in any format the result is exactly {success: False, error: 'Could not
\* parse output'}, whatever the exit code and stderr.
C7_FirstPatternWinsElseCouldNotParse ==
    Ran =>
        LET out == proc_stdout
            M1 == {i \in 1..Len(out) : pattern(out[i], call.num_docs, call.size, call.attrs)}
            M2 == {i \in 1..Len(out) : alt_pattern(out[i], call.num_docs, call.size)}
            M3 == {i \in 1..Len(out) : realistic_pattern(out[i], call.num_docs, call.size)}
            winner == IF M1 # {} THEN SetMin(M1)
                      ELSE IF M2 # {} THEN SetMin(M2) ELSE SetMin(M3)
        IN  /\ ReportsFor(out, call.num_docs, call.size) = {}
                => response = [success |-> FALSE, error |-> "Could not parse output"]
            /\ response.success => response.time_ms = out[winner].ms
            /\ (ReportsFor(out, call.num_docs, call.size) # {} /\ out[winner].ms > 0
                /\ call.query_links = None)
                => response.success

C7_Witness ==
    /\ Ran
    /\ proc_result.returncode = 1
    /\ Len(proc_stdout) = 2
    /\ proc_stdout[1].kind = "insert" /\ proc_stdout[1].docs = 5000
    /\ response = [success |-> FALSE, error |-> "Could not parse output"]

\* C8: every result that carries a throughput has time_ms > 0 and throughput =
\* round(num_docs / (time_ms / 1000), 2), from the requested num_docs and the
\* parsed time (10000 documents in 200 ms: 50000.0); likewise query_throughput =
\* round(queries_executed / (query_time_ms / 1000), 2) (10000 queries in 500 ms:
\* 20000.0).  Throughputs are in hundredths.
C8_ThroughputIsRoundedRate ==
    Returned =>
        /\ response.success <=> "throughput" \in DOMAIN response
        /\ "throughput" \in DOMAIN response =>
              /\ response.time_ms > 0
              /\ NearestHundredth(response.throughput, call.num_docs, response.time_ms)
              /\ (call.num_docs = 10000 /\ response.time_ms = 200)
                    => response.throughput = 5000000
              /\ response.mongodb_document.results.insert_throughput = response.throughput
        /\ "query_throughput" \in DOMAIN response =>
              /\ response.query_time_ms > 0
              /\ NearestHundredth(response.query_throughput,
                                  response.queries_executed, response.query_time_ms)
              /\ (response.queries_executed = 10000 /\ response.query_time_ms = 500)
                    => response.query_throughput = 2000000

C8_Witness ==
    /\ Returned
    /\ response.success
    /\ response.time_ms = 600
    /\ response.throughput = 1666667
    /\ "query_throughput" \in DOMAIN response
    /\ response.queries_executed = 9000
    /\ response.query_throughput = 1500000

\* C9: when query testing is requested and the insert report parses (with a
\* time > 0), run_benchmark returns success=True whatever the query part of
\* stdout holds; a query report that does not match gives query_time_ms=None
\* and a query_error field.
C9_QueryReportNeverFailsResult ==
    (Ran /\ call.query_links # None) =>
        LET ins == ParseInsert(proc_stdout, call.num_docs, call.size, call.attrs)
            q == ParseQuery(proc_stdout, call.query_links)
        IN  (ins.matched /\ ins.time_ms > 0) =>
                /\ response.success
                /\ ~q.matched =>
                      /\ "query_error" \in DOMAIN response
                      /\ response.query_time_ms = None

\* C16: run_benchmark launches the load generator at most once per call; a
\* timeout gives exactly {success: False, error: 'Timeout'}, any other
\* exception of the launch gives {success: False, error: <its message>}, and
\* the call always returns a result (no exception escapes).
C16_OneLaunchNoEscape ==
    /\ launches <= 1
    /\ Returned =>
          /\ "success" \in DOMAIN response
          /\ proc_result.kind = "timeout"
                => response = [success |-> FALSE, error |-> "Timeout"]
          /\ proc_result.kind = "exception"
                => response = [success |-> FALSE, error |-> proc_result.msg]
          /\ proc_result.kind # "jar_missing" => launches = 1

C16_Witness ==
    /\ Returned
    /\ proc_result.kind = "timeout"
    /\ launches = 1
    /\ response = [success |-> FALSE, error |-> "Timeout"]

----------------------------------------------------------------------------
(* Properties of the container lifecycle.                                  *)

\* C10: for every container-backed db_type, start_database followed
\* immediately by stop_database leaves no container of that target's name
\* running, whether the start returned success or failure.
C10_StartThenStopLeavesNoContainer ==
    lpc = "stopped" => l_db.container \notin running

\* a start that timed out (container up, start reported failure), then stopped
C10_Witness ==
    /\ lpc = "stopped"
    /\ l_outcome = "timeout"
    /\ l_db.db_type = "yugabytedb"
    /\ running # {}

----------------------------------------------------------------------------
(* Properties of check_ready.                                              *)

\* the probe of the target's type reported an authoritative success
Authoritative(db_type, obs) ==
    LET done(p) == p.kind = "completed" /\ p.returncode = 0
    IN  IF db_type = "mongodb"
        THEN done(obs.exec) /\ Contains(obs.exec.stdout, S_1)
        ELSE IF db_type = "documentdb"
        THEN \/ obs.ping
             \/ done(obs.host) /\ Contains(obs.host.stdout, S_ok)
                               /\ Contains(obs.host.stdout, S_1)
             \/ done(obs.exec) /\ Contains(obs.exec.stdout, S_1)
        ELSE IF db_type = "yugabytedb"
        THEN done(obs.exec) /\ Contains(obs.exec.stdout, S_Running)
        ELSE done(obs.exec)

\* C17: check_ready returns True only when the container is listed and the
\* probe of its type reported an authoritative success (exit code 0 with the
\* expected answer); a probe that failed or printed only an error message
\* gives False, for every db_type.
C17_ReadyOnlyOnAuthoritativeSuccess ==
    (cpc = "returned" /\ c_ready) =>
        (c_obs.listed /\ Authoritative(c_db.db_type, c_obs))

----------------------------------------------------------------------------
(* Properties of run_test_suite.                                           *)

SuiteDone == pc = "done"

ContainerTargets == {i \in DOMAIN DATABASES : ~IsCloud(DATABASES[i])}
CloudTargets == {i \in DOMAIN DATABASES : IsCloud(DATABASES[i])}

\* the entries of the history for one target (and one test; 0 = whole suite)
Issued(ops, key, test) ==
    {i \in DOMAIN docker_log :
        /\ docker_log[i].op \in ops
        /\ docker_log[i].key = key
        /\ docker_log[i].test = test}

\* the start attempts that failed: a container start or a cloud ping
FailedAttempts ==
    {i \in DOMAIN docker_log :
        docker_log[i].op \in {"start", "ping"} /\ ~docker_log[i].ok}

\* the scopes of a suite in which a target is started: each test in
\* restart-per-test mode, the whole suite (0) in persistent mode
Scopes == IF restart_per_test THEN DOMAIN test_configs ELSE {0}

\* C1: when the suite has returned, exactly one container start and exactly one
\* container stop have been issued for every container target and every test
\* (restart-per-test mode), or for every container target (persistent mode: the
\* tests of a target form one contiguous run), whatever failed on the way.
C1_OneStartOneStopPerScope ==
    SuiteDone =>
        \A i \in ContainerTargets : \A t \in Scopes :
            /\ Cardinality(Issued({"start"}, DATABASES[i].key, t)) = 1
            /\ Cardinality(Issued({"stop"}, DATABASES[i].key, t)) = 1

C3_NoStartAfterFailedStart ==
    \A i \in FailedAttempts :
        \A j \in DOMAIN docker_log :
            j > i => ~(/\ docker_log[j].op \in {"start", "ping"}
                       /\ docker_log[j].key = docker_log[i].key)

\* C3 (amended): a failed start makes the target unavailable for the scope the
\* start was for. In persistent mode that is the whole suite: the target is
\* not started again and each of its tests is recorded as failed. In
\* restart-per-test mode it is the one test: that test is recorded as failed,
\* and the target is started afresh, exactly once, for every other test. The
\* suite goes on: when it has returned, every target has had exactly one
\* start attempt in every scope.
C3_FailedStartCoversItsScope ==
    /\ \A i \in FailedAttempts :
          LET e == docker_log[i]
          IN  /\ Cardinality(Issued({"start", "ping"}, e.key, e.test)) = 1
              /\ IF restart_per_test
                 THEN /\ Len(results[e.key]) >= e.test
                      /\ ~results[e.key][e.test].success
                 ELSE /\ Cardinality({j \in DOMAIN docker_log :
                             /\ docker_log[j].op \in {"start", "ping"}
                             /\ docker_log[j].key = e.key}) = 1
                      /\ Len(results[e.key]) = Len(test_configs)
                      /\ \A t \in DOMAIN test_configs : ~results[e.key][t].success
    /\ SuiteDone =>
          \A i \in DOMAIN DATABASES : \A t \in Scopes :
              Cardinality(Issued({"start", "ping"}, DATABASES[i].key, t)) = 1

C3_Witness ==
    /\ SuiteDone
    /\ restart_per_test
    /\ Len(DATABASES) = 2
    /\ \E i \in FailedAttempts :
          /\ docker_log[i].op = "start"
          /\ docker_log[i].test = 1
          /\ docker_log[i].key = DATABASES[1].key
          /\ \E j \in Issued({"start"}, DATABASES[1].key, 2) : docker_log[j].ok
          /\ Issued({"start", "ping"}, DATABASES[2].key, 1) # {}

\* C4: a cloud target whose reachability ping failed has, when the suite has
\* returned, the result {success: False, error: 'Cloud database unreachable'}
\* for every test, in both modes, and no container start or stop was issued
\* for it.
C4_UnreachableCloudFailsEveryTest ==
    \A i \in DOMAIN docker_log :
        (docker_log[i].op = "ping" /\ ~docker_log[i].ok) =>
            /\ SuiteDone =>
                  results[docker_log[i].key] = FailedForAll(CloudUnreachable, test_configs)
            /\ \A t \in {0} \cup DOMAIN test_configs :
                  Issued({"start", "stop"}, docker_log[i].key, t) = {}

\* the keys of the cloud targets, whatever the target list
CloudKeys == {CLOUD_DATABASES[i].key : i \in DOMAIN CLOUD_DATABASES}

\* C14: for a cloud target no docker command is ever issued, neither by
\* stop_all_databases nor by the suite in either mode: the only calls made for
\* it are the reachability ping and the load generator, no command is issued
\* for a container it does not have, and it is never among the running
\* containers.
C14_NoDockerCommandForCloudTarget ==
    /\ \A i \in DOMAIN docker_log :
          (docker_log[i].key \in CloudKeys \/ docker_log[i].container = NoneStr)
              => docker_log[i].op \in {"ping", "bench"}
    /\ NoneStr \notin running

C14_Witness ==
    /\ SuiteDone
    /\ \E c \in CloudTargets : \E d \in ContainerTargets :
          /\ \E i \in DOMAIN docker_log :
                /\ docker_log[i].op = "ping"
                /\ docker_log[i].ok
                /\ docker_log[i].key = DATABASES[c].key
          /\ \E i \in DOMAIN docker_log :
                docker_log[i].op = "bench" /\ docker_log[i].key = DATABASES[c].key
          /\ \E i \in DOMAIN docker_log :
                docker_log[i].op = "rm" /\ docker_log[i].key = DATABASES[d].key
          /\ \E i \in DOMAIN docker_log :
                docker_log[i].op = "stop" /\ docker_log[i].key = DATABASES[d].key

\* C15: every start of a resource monitor is made with monitoring enabled and
\* for a target that is not a cloud target; every launch of the load generator
\* carries the latency switch if and only if its target is a cloud target.
C15_MonitorLocalLatencyCloud ==
    \A i \in DOMAIN docker_log :
        /\ docker_log[i].op = "monitor" =>
              enable_monitoring /\ docker_log[i].key \notin CloudKeys
        /\ docker_log[i].op = "bench" =>
              (docker_log[i].ok <=> docker_log[i].key \in CloudKeys)

C15_Witness ==
    /\ enable_monitoring
    /\ \E i \in DOMAIN docker_log :
          docker_log[i].op = "monitor" /\ docker_log[i].key \notin CloudKeys
    /\ \E i \in DOMAIN docker_log :
          docker_log[i].op = "bench" /\ docker_log[i].ok /\ docker_log[i].key \in CloudKeys
    /\ \E i \in DOMAIN docker_log :
          docker_log[i].op = "bench" /\ ~docker_log[i].ok

\* the suite has just called start_database: the call is the last of the history
JustStarted ==
    /\ l_outcome # "none"
    /\ docker_log # <<>>
    /\ docker_log[Len(docker_log)].op = "start"
    /\ docker_log[Len(docker_log)].key = l_db.key

\* the failed result is on record for the test (restart-per-test mode) or for
\* every test (persistent mode) of the target just started, and the suite is
\* at its next start, at its final stop or at its end
FailedStartRecorded ==
    LET e == docker_log[Len(docker_log)]
    IN  /\ e.key \in DOMAIN results
        /\ IF restart_per_test
           THEN /\ Len(results[e.key]) >= e.test
                /\ results[e.key][e.test] = StartFailed
           ELSE results[e.key] = FailedForAll(StartFailed, test_configs)
        /\ pc \in {"r_start", "p_start", "p_final", "done"}

\* C18 (as stated): whichever step of the start failed, the post-start
\* initialization included, start_database has returned (False, None) and the
\* suite has recorded the failed result and gone on.
C18_AnyFailedStepFailsStart ==
    (JustStarted /\ l_outcome # "ready") =>
        (~docker_log[Len(docker_log)].ok /\ FailedStartRecorded)

\* C18 (amended): when the image pull, the run command or the readiness within
\* the ceiling has failed, start_database has returned (False, None) and the
\* suite has recorded the failed result and gone on; when only the post-start
\* initialization or the DocumentDB operational verification has failed,
\* start_database has returned (True, version_info) and the suite goes on to
\* run the test.
C18_FailedStartStepFailsStart ==
    JustStarted =>
        /\ l_outcome \in {"pull_failed", "run_failed", "timeout"} =>
              (~docker_log[Len(docker_log)].ok /\ FailedStartRecorded)
        /\ l_outcome \in {"init_failed", "verify_failed"} =>
              /\ docker_log[Len(docker_log)].ok
              /\ pc \in {"r_monitor", "r_bench", "p_monitor", "p_bench"}

C18_Witness ==
    /\ JustStarted
    /\ l_outcome = "timeout"
    /\ FailedStartRecorded
    /\ pc \in {"r_start", "p_start"}
    /\ \E i \in DOMAIN docker_log :
          /\ docker_log[i].op = "start"
          /\ docker_log[i].ok
          /\ \E j \in DOMAIN docker_log : j > i /\ docker_log[j].op = "bench"

\* the entries of the activity log for one database, in order
ActivityOf(name) == SelectSeq(activity_log, LAMBDA e : e.database = name)

\* C21: in persistent mode with activity tracking, the activity log of every
\* database alternates 'started', 'stopped', 'started', ...: a 'stopped' is
\* logged only for a container that was started and not stopped since, never
\* two for one 'started'.
C21_ActivityAlternates ==
    track_activity =>
        \A n \in {activity_log[i].database : i \in DOMAIN activity_log} :
            \A i \in DOMAIN ActivityOf(n) :
                ActivityOf(n)[i].event = (IF i % 2 = 1 THEN "started" ELSE "stopped")

\* C28: whenever the suite invokes a benchmark, no container of another target
\* is running: the only container up, if any, is the one of the target of the
\* benchmark (none for a cloud target), in both modes.
C28_OneContainerAtBenchmark ==
    pc \in {"r_bench", "p_bench"} =>
        running \subseteq (IF IsCloud(DATABASES[db_idx]) THEN {}
                           ELSE {DATABASES[db_idx].container})

\* C29: when the suite has returned, no container it created is running, in
\* both modes, whatever the outcome of each start.
C29_NoContainerLeftRunning ==
    SuiteDone => running = {}

\* the benchmarks invoked so far, in the order of their invocation
Benchmarks == SelectSeq(docker_log, LAMBDA e : e.op = "bench")

\* the position of a target in DATABASES
TargetIndex(key) == CHOOSE i \in DOMAIN DATABASES : DATABASES[i].key = key

\* the suite is at a test of a target: before its monitor, before its
\* benchmark, or before its result is appended
AtTest == pc \in {"r_monitor", "r_bench", "r_collect", "p_monitor", "p_bench", "p_collect"}

\* C23: whenever a benchmark has returned, the benchmarks invoked so far are
\* in the order of test_configs and, within a test (restart-per-test mode) or
\* around the tests (persistent mode), in the order of DATABASES; the result
\* of test_configs[i] becomes entry i of its target's list, in both modes,
\* whatever starts and benchmarks failed.
C23_ResultsInTestOrder ==
    /\ pc \in {"r_collect", "p_collect", "done"} =>
          LET b == Benchmarks
          IN  /\ \A i \in 1..(Len(b) - 1) :
                    IF restart_per_test
                    THEN \/ b[i].test < b[i + 1].test
                         \/ /\ b[i].test = b[i + 1].test
                            /\ TargetIndex(b[i].key) < TargetIndex(b[i + 1].key)
                    ELSE \/ TargetIndex(b[i].key) < TargetIndex(b[i + 1].key)
                         \/ b[i].key = b[i + 1].key /\ b[i].test + 1 = b[i + 1].test
              /\ pc # "done" =>
                    /\ b[Len(b)].test = test_idx
                    /\ b[Len(b)].key = DATABASES[db_idx].key
                    /\ result.success => result.size = test_configs[test_idx].size
    /\ AtTest => Len(results[DATABASES[db_idx].key]) = test_idx - 1
    /\ \A k \in DOMAIN results : \A t \in DOMAIN results[k] :
          results[k][t].success => results[k][t].size = test_configs[t].size

C23_Witness ==
    /\ SuiteDone
    /\ Len(DATABASES) = 2
    /\ Len(test_configs) = 2
    /\ Len(Benchmarks) >= 3
    /\ \E k \in DOMAIN results :
          /\ Len(results[k]) = 2
          /\ results[k][1].success
          /\ results[k][2].success
    /\ \E k \in DOMAIN results : \E t \in DOMAIN results[k] : ~results[k][t].success

\* C30: at most one monitor process runs at any time; one runs only from the
\* start of the monitor of a test to the appending of that test's result, that
\* is, it is still up when the benchmark returns and is stopped before the
\* container is stopped, before the next benchmark and before the suite returns.
C30_MonitorStoppedAfterItsBenchmark ==
    /\ monitors \in {0, 1}
    /\ pc \in {"r_bench", "r_collect", "p_bench", "p_collect"} =>
          (monitors = 1 <=> Monitored(enable_monitoring, DATABASES[db_idx], monitor_proc))
    /\ pc \notin {"r_bench", "r_collect", "p_bench", "p_collect"} => monitors = 0

C30_Witness ==
    /\ pc = "r_stop"
    /\ monitor_proc # None
    /\ monitors = 0
    /\ \E i \in DOMAIN docker_log :
          /\ docker_log[i].op = "monitor"
          /\ i < Len(docker_log)
          /\ docker_log[i + 1].op = "bench"

----------------------------------------------------------------------------
(* Properties of a run.                                                    *)

\* the run is over: it has returned, or an exception has left it
RunEnded == rpc \in {"done", "raised"}

\* every suite of the run has been called and has returned its results
SuitesReturned ==
    /\ Len(pass_log) = (IF mode = "main" THEN 2 ELSE 4)
    /\ Len(collected) = Len(pass_log) * Len(DATABASES)

\* C11: when a run whose suites have all returned is over, the local JSON
\* backup has been written and holds every result of the run, whatever became
\* of the storage connection and of the inserts.
C11_BackupWrittenWhateverStorageDid ==
    (RunEnded /\ SuitesReturned) =>
        /\ backup.status = "written"
        /\ backup.data = collected

\* C12: in a full comparison the first pass run is the one the random choice
\* selected: the indexed pass when run_index_first is True, else the
\* no-index pass.
C12_FirstPassIsTheChosenOne ==
    (mode = "full" /\ pass_log # <<>>) =>
        pass_log[1].pass = (IF run_index_first THEN "indexed" ELSE "no_index")

\* the tokens of a flag string that are not index switches, in order
NonIndexTokens(flags) ==
    SelectSeq(Split(flags), LAMBDA t : t \notin {F_i, F_mv})

\* C13: every suite of the insert-only pass sees, for every target, flags
\* without an '-i' or '-mv' token and with every other token of the target's
\* original flags in order; every suite of the indexed pass sees the flags the
\* target had before the insert-only pass, and from the restore on the target
\* list equals the list saved before the strip.
C13_StripThenRestore ==
    mode = "full" =>
        /\ \A k \in DOMAIN pass_log : \A i \in DOMAIN original_databases :
              /\ pass_log[k].pass = "no_index" =>
                    /\ F_i \notin Range(Split(pass_log[k].flags[i]))
                    /\ F_mv \notin Range(Split(pass_log[k].flags[i]))
                    /\ Split(pass_log[k].flags[i])
                           = NonIndexTokens(original_databases[i].flags)
              /\ pass_log[k].pass = "indexed" =>
                    pass_log[k].flags[i] = original_databases[i].flags
        /\ rpc \in {"f_indexed_single", "f_indexed_multi", "f_store", "f_close",
                    "f_backup", "done"} => DATABASES = original_databases

C13_Witness ==
    /\ mode = "full"
    /\ Len(original_databases) = 2
    /\ \A i \in DOMAIN original_databases :
          F_i \in Range(Split(original_databases[i].flags))
    /\ \E k \in DOMAIN pass_log :
          pass_log[k].pass = "no_index"
          /\ \A i \in DOMAIN original_databases :
                pass_log[k].flags[i] # original_databases[i].flags
    /\ \E k \in DOMAIN pass_log : pass_log[k].pass = "indexed"

\* what every result document of the run carries as test_run_id
RunId == IF r_test_run_id = NoneStr THEN "unknown" ELSE r_test_run_id

\* the instant a timestamp stands for, str or datetime
InstantOf(ts) == IF "str" \in DOMAIN ts THEN FromIsoFormat(ts.str) ELSE ts.datetime

\* C19: every result document built in the run carries the test_run_id of
\* the run, and its timestamp stands for the instant run_benchmark built it,
\* before and after storing; what insert_one receives carries that instant as
\* a datetime, an instant earlier than the one of storing.
C19_OneRunIdTimestampOfBuilding ==
    /\ \A i \in DOMAIN collected :
          Storable(collected[i].result) =>
              /\ collected[i].result.mongodb_document.test_run_id = RunId
              /\ InstantOf(collected[i].result.mongodb_document.timestamp)
                     = collected[i].built
    /\ \A i \in DOMAIN inserted :
          /\ inserted[i].doc.test_run_id = RunId
          /\ inserted[i].doc.timestamp = [datetime |-> inserted[i].built]
          /\ inserted[i].built < inserted[i].at

C19_Witness ==
    /\ Len(inserted) >= 2
    /\ \E i, j \in DOMAIN inserted :
          /\ inserted[i].built < 10
          /\ inserted[j].built >= 10
          /\ inserted[j].at > inserted[j].built + 1
          /\ inserted[i].doc.test_run_id = "uuid-1"

\* C22: storing leaves every result of the run and its document as they were:
\* store_results_to_mongodb and store_test_result only read them.
C22_StoringLeavesResultsUnchanged ==
    [][(rpc \in {"m_store", "f_store"}) => (collected' = collected)]_vars

\* C20: a run opens the storage connection at most once, every insert is
\* made while it is open, no close comes before the last insert, and when the
\* run is over, by return or by exception, a connection that was opened has
\* been closed exactly once.
C20_OpenedOnceClosedOnce ==
    /\ opens <= 1
    /\ \A i \in DOMAIN inserted : inserted[i].open
    /\ closes > 0 => rpc \notin (SuitePositions \cup {"m_store", "f_store"})
    /\ RunEnded => closes = opens

----------------------------------------------------------------------------
(* Properties of store_results_to_mongodb.                                 *)

\* the results the loops have gone through that have success = True and a
\* document attached
StorableSoFar == {at \in 1..s_pos : Storable(results_dict[at])}

\* C26: the only call made on the collection is insert_one; it is made for
\* exactly the results with success = True and a document, once for each, in
\* order, never for a failed result; the count returned is the number of
\* inserts that returned an id; without a connected storage nothing is
\* inserted and 0 is returned.
C26_InsertsExactlyTheStorable ==
    /\ \A i \in DOMAIN s_calls :
          /\ s_calls[i].op = "insert_one"
          /\ results_dict[s_calls[i].at].success
          /\ s_calls[i].document = results_dict[s_calls[i].at].mongodb_document
    /\ \A i, j \in DOMAIN s_calls : i < j => s_calls[i].at < s_calls[j].at
    /\ {s_calls[i].at : i \in DOMAIN s_calls} = StorableSoFar
    /\ stored_count = Cardinality({i \in DOMAIN s_calls : s_calls[i].ok})
    /\ s_storage # "connected" => (s_calls = <<>> /\ stored_count = 0 /\ s_pos = 0)
    /\ (spc = "returned" /\ s_storage = "connected") => s_pos = Len(results_dict)

C26_Witness ==
    /\ spc = "returned"
    /\ s_storage = "connected"
    /\ Len(results_dict) = 3
    /\ ~results_dict[1].success
    /\ Len(s_calls) = 2
    /\ s_calls[1].ok
    /\ ~s_calls[2].ok
    /\ stored_count = 1

----------------------------------------------------------------------------
(* Properties of start_database.                                           *)

\* start_database has returned
WaitReturned == wpc \in {"returned", "suite"}

\* C24: start_database makes at most 30 readiness probes (90 for documentdb),
\* makes none after a probe has succeeded, returns success only after a probe
\* that succeeded, returns (False, None) after the last probe has failed, and
\* returns on every execution.
C24_BoundedProbesThenReturn ==
    /\ [](/\ w_probes <= (IF w_db.db_type = "documentdb" THEN 90 ELSE 30)
          /\ wpc = "waiting" => ~w_ready
          /\ WaitReturned =>
                /\ w_ret.ok <=> w_ready
                /\ (~w_ret.ok /\ w_probes > 0) =>
                      /\ w_probes = (IF w_db.db_type = "documentdb" THEN 90 ELSE 30)
                      /\ w_ret.version_info = NoneStr)
    /\ <>WaitReturned

C24_Witness ==
    /\ WaitReturned
    /\ w_db.db_type = "documentdb"
    /\ w_probes = 90
    /\ ~w_ready
    /\ ~w_ret.ok

\* C25: the operational check is made only for documentdb after a probe has
\* succeeded, makes at most 15 attempts and none after one has passed; when
\* all 15 have failed, start_database goes on to the initialization and
\* returns success, and the suite runs the test.
C25_FailedVerificationDoesNotAbort ==
    /\ w_attempts <= 15
    /\ w_attempts > 0 => (w_db.db_type = "documentdb" /\ w_ready)
    /\ wpc = "verifying" => (w_attempts = 0 \/ ~w_verified)
    /\ (w_attempts > 0 /\ wpc # "verifying") =>
          /\ w_verified \/ w_attempts = 15
          /\ wpc \in {"initializing", "returned", "suite"}
          /\ WaitReturned =>
                /\ w_ret.ok
                /\ ~w_verified => w_ret.ok = StartSucceeded("verify_failed")
          /\ wpc = "suite" => w_then = "benchmark"

C25_Witness ==
    /\ wpc = "suite"
    /\ w_attempts = 15
    /\ ~w_verified
    /\ w_ret.ok
    /\ w_then = "benchmark"

----------------------------------------------------------------------------
(* Properties of get_database_version.                                     *)

\* the lookup routes of a db_type in the order they are to be tried, those
\* left out that do not apply to the connection information
Routes(db_type, info, env) ==
    IF db_type \in {"mongodb", "documentdb", "mongodb-cloud", "documentdb-azure"}
    THEN (IF env.pymongo THEN <<"buildInfo", "eval">> ELSE <<>>)
         \o <<"host">>
         \o (IF info.container /\ ~info.user THEN <<"docker">> ELSE <<>>)
    ELSE IF db_type = "postgresql"
    THEN <<"host">> \o (IF info.container THEN <<"docker">> ELSE <<>>)
    ELSE <<>>

\* C27: get_database_version returns (it never raises) the version of the
\* first route of the db_type that gives one, and None when no route gives
\* one or the db_type is not known.
C27_FirstRouteThatSucceeds ==
    vpc = "returned" =>
        LET routes == Routes(v_db_type, connection_info, v_env)
            good == {i \in DOMAIN routes : v_env[routes[i]] = "version"}
        IN  v_ret.version = (IF good = {} THEN NoneStr
                             ELSE VersionBy(routes[Nth(good, 1)]))

====
